---- MODULE Spec2Model ----
(***************************************************************************)
(* State-machine model of docsmith's context orchestration loop            *)
(* (analyzeRepo, src/services/geminiService.ts).                           *)
(*                                                                         *)
(* JavaScript values are modelled as follows.                              *)
(*   - A value that may be `undefined` is an option record: Undefined is   *)
(*     [def |-> FALSE], a defined value v is [def |-> TRUE, v |-> v].      *)
(*   - Arrays and the artifacts object are reference values: the context   *)
(*     holds a reference <<n, slot>> into the heaps `arrs` / `objs`, where *)
(*     n = 0 names the objects created by analyzeRepo itself and n >= 1    *)
(*     the objects of the args of the n-th capability invocation of the    *)
(*     session.  Assigning a field copies the reference, as in JS.         *)
(*   - A function call is [name, id, args]; args is a record whose DOMAIN  *)
(*     is the set of properties the engine supplied (a required property   *)
(*     may be missing).  call.args itself is always an object.             *)
(*   - Both callbacks (onProgress, onPartialUpdate) are supplied, as in    *)
(*     the application's only call site.                                   *)
(***************************************************************************)
EXTENDS Integers, Sequences, FiniteSets, TLC

\* ------------------------------------------------------------------ bounds
\* An engine script has at most MaxScript items.  An item is a capability
\* invocation, or a response without invocation after which the engine
\* is still active.  An engine that has gone quiet answers every later
\* call with a response that has a content and no invocation.
MaxScript == 2
\* At most MaxPerResponse invocations in one engine response.
MaxPerResponse == 2
\* At most MaxObserverWrites mutations performed by an observer.
MaxObserverWrites == 1

\* ------------------------------------------------------- program constants
\* for (let turn = 0; turn < 15; turn++)
TurnBudget == 15

\* Bounds of the chunkText inputs: longest text and largest maxChunkSize.
MaxTextLen == 6
MaxChunkSize == 4

\* Bounds of the embedChunks inputs: most files, latest clock reading.
MaxFiles == 45
MaxNow == 1

\* Bounds of an assembled vector index: most runs appended, most files of
\* one of its corpora.
MaxRuns == 2
MaxIndexFiles == 2

\* Bounds of the retrieveContext inputs: longest index, largest topK.
MaxIndexLen == 3
MaxTopK == 3

\* Two sessions side by side: capability invocations of both together.
MaxPairScript == 2
\* The ids of the function calls of the second session start above this.
PairIdBase == 100

\* Bound of the fetchRepoData inputs: most files selected for fetching.
MaxFetch == 7

\* `const BATCH_SIZE = 6` of fetchRepoData
FETCH_BATCH_SIZE == 6

\* The editor: files, sections of an outline, user events, awaited calls.
MaxEdFiles == 2
MaxEdSections == 2
MaxEdEvents == 4
MaxEdOps == 2

\* `maxChunkSize = 1500` and `const BATCH_SIZE = 20`
DefaultChunkSize == 1500
BATCH_SIZE == 20

\* ------------------------------------------------------------ JS values
Undefined == [def |-> FALSE]
Def(v) == [def |-> TRUE, v |-> v]

IsDefined(x) == x.def

\* args.f : the property when present, undefined otherwise.
Prop(args, f) == IF f \in DOMAIN args THEN Def(args[f]) ELSE Undefined

ListFields == {"techStack", "entryPoints", "keyModules", "workflows", "benchmarks"}
ArtifactFields == {"projectOverview", "gettingStarted", "architecture", "commonTasks"}

\* Reference to the array held by property f of the args of invocation n
\* (n = 0: the arrays created by the initial context literal).
ArrRef(n, f) == <<n, f>>
\* Reference to the args object of invocation n (n = 0: the initial
\* artifacts object literal).
ObjRef(n) == <<n, "args">>

\* args.f for an array property: a reference to the array, or undefined.
PropRef(call, f) ==
    IF f \in DOMAIN call.args THEN Def(ArrRef(call.id, f)) ELSE Undefined

\* The artifacts object a commit_artifacts args object denotes: the four
\* texts, each undefined when the engine left it out.
ArtifactsOf(args) == [f \in ArtifactFields |-> Prop(args, f)]

\* ------------------------------------------------- engine script alphabet
Errors == {"E1"}
None == "none"

OverviewArgs ==
    { [summary |-> "A", techStack |-> <<"A">>],
      [summary |-> "B", techStack |-> <<"B", "A">>],
      [techStack |-> <<"B">>] }

ArchitectureArgs ==
    { [entryPoints |-> <<"A">>, keyModules |-> <<"A">>],
      [entryPoints |-> <<"A">>] }

WorkflowsArgs ==
    { [workflows |-> <<"A">>], [x \in {} |-> "A"] }

ArtifactsArgs ==
    { [projectOverview |-> "A", gettingStarted |-> "A",
       architecture |-> "A", commonTasks |-> "A"],
      [projectOverview |-> "B", gettingStarted |-> "B",
       architecture |-> "B", commonTasks |-> "B"],
      [projectOverview |-> "A", gettingStarted |-> "B"] }

BenchmarksArgs ==
    { [benchmarks |-> <<"A">>], [x \in {} |-> "A"] }

NoArgs == { [x \in {} |-> "A"] }

Capabilities ==
    {"commit_overview", "commit_architecture", "commit_workflows",
     "commit_artifacts", "commit_benchmarks", "signal_complete"}

\* Names an engine may put in a function call; "other" is not declared.
CallNames == Capabilities \cup {"other"}

ArgsFor(name) ==
    CASE name = "commit_overview" -> OverviewArgs
      [] name = "commit_architecture" -> ArchitectureArgs
      [] name = "commit_workflows" -> WorkflowsArgs
      [] name = "commit_artifacts" -> ArtifactsArgs
      [] name = "commit_benchmarks" -> BenchmarksArgs
      [] OTHER -> NoArgs

\* required: [...] of each declaration.
Required(name) ==
    CASE name = "commit_overview" -> {"summary", "techStack"}
      [] name = "commit_architecture" -> {"entryPoints", "keyModules"}
      [] name = "commit_workflows" -> {"workflows"}
      [] name = "commit_artifacts" -> ArtifactFields
      [] name = "commit_benchmarks" -> {"benchmarks"}
      [] OTHER -> {}

WellFormed(call) == Required(call.name) \subseteq DOMAIN call.args


\* ------------------------------------------------------------------ state
VARIABLES
    pc,              \* position of the session: "loop", "await", "proc",
                     \* "returned", "thrown"
    turn,            \* loop variable `turn`
    isComplete,      \* completion flag
    currentContext,  \* the accumulator
    arrs,            \* heap of arrays, by reference
    objs,            \* heap of artifacts objects, by reference
    messages,        \* the conversation
    response,        \* the response of the current (or latest) turn
    pending,         \* invocations of `response` not yet processed
    toolParts,       \* acknowledgements collected for this response
    result,          \* value the promise resolved with, or None
    rejection,       \* error the promise rejected with, or None
    engineCalls,     \* number of generateContent calls issued
    sent,            \* `contents` of the latest generateContent call
    engineError,     \* error thrown by an engine call, or None
    invoked,         \* history: invocations processed so far, in order,
                     \* each with the number (from 1) of its turn
    progress,        \* history: onProgress notifications
    partials,        \* history: objects delivered to onPartialUpdate
    idle,            \* script items spent on responses without invocation
    quiet,           \* the engine has gone quiet
    observerWrites   \* mutations performed by an observer so far

\* State of one chunkText call (src/services/ragService.ts).
VARIABLES
    ckPc,            \* "off", "called", "returned"
    ckText,          \* argument `text`, a sequence of characters
    ckMax,           \* argument `maxChunkSize`
    ckChunks         \* the returned list

chunkVars == <<ckPc, ckText, ckMax, ckChunks>>

\* State of one embedChunks run (src/services/ragService.ts).
VARIABLES
    ebPc,            \* "off", "loop", "await", "returned"
    ebFiles,         \* argument `files`
    ebType,          \* argument `type`
    allTextChunks,   \* the flattened chunk/source pairs
    ebI,             \* loop variable `i`
    vectorChunks,    \* the index being built
    processed,       \* counter `processed`
    ebNow,           \* the wall clock, read by Date.now()
    ebRequests,      \* history: embedContent requests issued
    ebOutcomes,      \* history: how each request ended
    ebReports        \* history: onProgress notifications

embedVars == <<ebPc, ebFiles, ebType, allTextChunks, ebI, vectorChunks,
               processed, ebNow, ebRequests, ebOutcomes, ebReports>>

\* The vector index an application assembles from embedChunks runs.
VARIABLES
    vectorIndex,     \* the chunks appended so far
    runs             \* number of runs whose result was appended

indexVars == <<vectorIndex, runs>>

\* State of one retrieveContext call (src/services/ragService.ts).
VARIABLES
    rtPc,            \* "off", "called", "await", "returned"
    rtIndex,         \* argument `index`
    rtTopK,          \* argument `topK`
    rtRequests,      \* number of embedContent requests issued
    rtResponse,      \* the response to the query request, if it resolved
    rtScored,        \* `scored` after the sort
    rtCompared,      \* number of cosineSimilarity calls made
    rtResult         \* the value the promise resolved with, if it has

retrieveVars == <<rtPc, rtIndex, rtTopK, rtRequests, rtResponse, rtScored,
                  rtCompared, rtResult>>

\* Two analyzeRepo sessions running side by side.
VARIABLES
    sess,            \* the two sessions, each a record of its locals
    prArrs,          \* heap of arrays the two sessions refer into
    prObjs           \* heap of artifacts objects

pairVars == <<sess, prArrs, prObjs>>

\* One fetchRepoData call, from the point where filesToFetch is known.
VARIABLES
    ftPc,            \* "off", "start", "await", "returned" or "thrown"
    ftService,       \* "github" (githubService) or "mock" (mockGithubService)
    filesToFetch,    \* how many files were selected; file f is 1..filesToFetch
    ftI,             \* the loop variable i of the batched loop
    ftOutstanding,   \* files whose content request is in flight
    ftGot,           \* files of the awaited requests that gave a summary
    ftFiles          \* the array `files`: the files collected, in order

fetchVars == <<ftPc, ftService, filesToFetch, ftI, ftOutstanding, ftGot,
               ftFiles>>

\* The application state handleAnalyze writes.
VARIABLES
    appPc,           \* "off", "analyzing", "done" or "failed"
    repoContext,     \* the React state repoContext
    step,            \* the React state step
    applied          \* how many queued partial updaters React has run

appVars == <<appPc, repoContext, step, applied>>

\* The state of one mounted DocEditor.
VARIABLES
    edFiles,         \* the React state files: file id -> its sections, isLoaded
    activeFileId,    \* the React state activeFileId
    activeSectionId, \* the React state activeSectionId; 0 is the empty string
    isDrafting,      \* the React state isDrafting
    isAuditing,      \* the React state isAuditing
    viewMode,        \* the React state viewMode
    chatMessages,    \* the React state chatMessages, one tag per message
    edOps,           \* the awaited engine calls, each with what it captured
    edEvents,        \* how many user events the editor has handled
    edLast           \* the last handler that ran, and whether it threw

editorVars == <<edFiles, activeFileId, activeSectionId, isDrafting,
                isAuditing, viewMode, chatMessages, edOps, edEvents, edLast>>

\* The variables added around chunkText and embedChunks.
extVars == <<indexVars, retrieveVars, pairVars, fetchVars, appVars,
             editorVars>>

\* The variables of the retrieval pipeline, which a session leaves alone.
ragVars == <<chunkVars, embedVars, extVars>>

sessionVars == <<pc, turn, isComplete, currentContext, arrs, objs, messages,
                 response, pending, toolParts, result, rejection,
                 engineCalls, sent, engineError, invoked, progress,
                 partials, idle, quiet, observerWrites>>

vars == <<sessionVars, ragVars>>

\* What the steps of one part of the program leave alone.
exceptChunk == <<sessionVars, embedVars, extVars>>
exceptEmbed == <<sessionVars, chunkVars, extVars>>
exceptRun == <<sessionVars, chunkVars, retrieveVars, pairVars, fetchVars,
              appVars,
    editorVars>>
exceptRetrieve == <<sessionVars, chunkVars, embedVars, indexVars, pairVars,
                   fetchVars, appVars,
    editorVars>>
exceptPair == <<sessionVars, chunkVars, embedVars, indexVars, retrieveVars,
               fetchVars, appVars,
    editorVars>>
exceptFetch == <<sessionVars, chunkVars, embedVars, indexVars, retrieveVars,
                pairVars, appVars,
    editorVars>>
exceptApp == <<sessionVars, chunkVars, embedVars, indexVars, retrieveVars,
              pairVars, fetchVars,
    editorVars>>
exceptEditor == <<sessionVars, chunkVars, embedVars, indexVars, retrieveVars,
                 pairVars, fetchVars, appVars>>

\* const currentContext: RepoContext = { summary: "", techStack: [], ... }
InitialContext ==
    [summary |-> Def(""),
     techStack |-> Def(ArrRef(0, "techStack")),
     entryPoints |-> Def(ArrRef(0, "entryPoints")),
     keyModules |-> Def(ArrRef(0, "keyModules")),
     workflows |-> Def(ArrRef(0, "workflows")),
     artifacts |-> Def(ObjRef(0)),
     benchmarks |-> Def(ArrRef(0, "benchmarks"))]

InitialArrs == [r \in {ArrRef(0, f) : f \in ListFields} |-> <<>>]

InitialObjs == [r \in {ObjRef(0)} |-> [f \in ArtifactFields |-> Def("")]]

\* let messages = [{ role: 'user', parts: [{ text: systemPrompt }] }]
SystemMessage == [role |-> "user", text |-> "systemPrompt"]

NoResponse == [content |-> FALSE, functionCalls |-> <<>>]

\* The state of a session when analyzeRepo is entered.
SessionInit ==
    /\ pc = "loop"
    /\ turn = 0
    /\ isComplete = FALSE
    /\ currentContext = InitialContext
    /\ arrs = InitialArrs
    /\ objs = InitialObjs
    /\ messages = <<SystemMessage>>
    /\ response = NoResponse
    /\ pending = <<>>
    /\ toolParts = <<>>
    /\ result = None
    /\ rejection = None
    /\ engineCalls = 0
    /\ sent = <<>>
    /\ engineError = None
    /\ invoked = <<>>
    /\ progress = <<>>
    /\ partials = <<>>
    /\ idle = 0
    /\ quiet = FALSE
    /\ observerWrites = 0

\* No chunkText call is modelled.
ChunkOff ==
    /\ ckPc = "off"
    /\ ckText = <<>>
    /\ ckMax = 0
    /\ ckChunks = <<>>

\* No embedChunks run is modelled.
EmbedOff ==
    /\ ebPc = "off"
    /\ ebFiles = <<>>
    /\ ebType = "MAIN"
    /\ allTextChunks = <<>>
    /\ ebI = 0
    /\ vectorChunks = <<>>
    /\ processed = 0
    /\ ebNow = 0
    /\ ebRequests = <<>>
    /\ ebOutcomes = <<>>
    /\ ebReports = <<>>

\* No index is assembled.
IndexOff ==
    /\ vectorIndex = <<>>
    /\ runs = 0

\* No retrieveContext call is modelled.
RetrieveOff ==
    /\ rtPc = "off"
    /\ rtIndex = <<>>
    /\ rtTopK = 0
    /\ rtRequests = 0
    /\ rtResponse = Undefined
    /\ rtScored = <<>>
    /\ rtCompared = 0
    /\ rtResult = Undefined

\* No pair of sessions is modelled.
PairOff ==
    /\ sess = <<>>
    /\ prArrs = <<>>
    /\ prObjs = <<>>

\* No fetchRepoData call is modelled.
FetchOff ==
    /\ ftPc = "off"
    /\ ftService = "github"
    /\ filesToFetch = 0
    /\ ftI = 0
    /\ ftOutstanding = {}
    /\ ftGot = {}
    /\ ftFiles = <<>>

\* No handleAnalyze call is modelled.
AppOff ==
    /\ appPc = "off"
    /\ repoContext = Undefined
    /\ step = "LANDING"
    /\ applied = 0

\* No DocEditor is mounted.
EditorOff ==
    /\ edFiles = <<>>
    /\ activeFileId = 0
    /\ activeSectionId = 0
    /\ isDrafting = FALSE
    /\ isAuditing = FALSE
    /\ viewMode = "split"
    /\ chatMessages = <<>>
    /\ edOps = <<>>
    /\ edEvents = 0
    /\ edLast = [handler |-> "none", threw |-> FALSE, file |-> 0, idx |-> 0]

\* Nothing around chunkText and embedChunks is going on.
ExtOff ==
    IndexOff /\ RetrieveOff /\ PairOff /\ FetchOff /\ AppOff /\ EditorOff

Init == SessionInit /\ ChunkOff /\ EmbedOff /\ ExtOff

\* ----------------------------------------------------- reading the heap
DerefArr(heap, x) == IF IsDefined(x) THEN Def(heap[x.v]) ELSE Undefined

DerefObj(heap, x) == IF IsDefined(x) THEN Def(heap[x.v]) ELSE Undefined

\* The value a context object (the accumulator or a delivered snapshot)
\* denotes when read through the heaps.
View(ctx, ah, oh) ==
    [summary |-> ctx.summary,
     techStack |-> DerefArr(ah, ctx.techStack),
     entryPoints |-> DerefArr(ah, ctx.entryPoints),
     keyModules |-> DerefArr(ah, ctx.keyModules),
     workflows |-> DerefArr(ah, ctx.workflows),
     artifacts |-> DerefObj(oh, ctx.artifacts),
     benchmarks |-> DerefArr(ah, ctx.benchmarks)]


\* ------------------------------------------------- the per-invocation body
\* Mutant of Merge: a group that was already committed is not overwritten
\* by a later commit_overview (first write wins).
Merge_FirstWriteWins(ctx, call) ==
    CASE call.name = "commit_overview" ->
           IF ctx.summary = Def("")
           THEN [ctx EXCEPT !.summary = Prop(call.args, "summary"),
                            !.techStack = PropRef(call, "techStack")]
           ELSE ctx
      [] call.name = "commit_architecture" ->
           [ctx EXCEPT !.entryPoints = PropRef(call, "entryPoints"),
                       !.keyModules = PropRef(call, "keyModules")]
      [] call.name = "commit_workflows" ->
           [ctx EXCEPT !.workflows = PropRef(call, "workflows")]
      [] call.name = "commit_artifacts" ->
           [ctx EXCEPT !.artifacts = Def(ObjRef(call.id))]
      [] call.name = "commit_benchmarks" ->
           [ctx EXCEPT !.benchmarks = PropRef(call, "benchmarks")]
      [] OTHER -> ctx

\* The if / else-if chain of lines 193-224: the assignments to the
\* accumulator.  An undeclared name and signal_complete assign nothing.
Merge(ctx, call) ==
    CASE call.name = "commit_overview" ->
           [ctx EXCEPT !.summary = Prop(call.args, "summary"),
                       !.techStack = PropRef(call, "techStack")]
      [] call.name = "commit_architecture" ->
           [ctx EXCEPT !.entryPoints = PropRef(call, "entryPoints"),
                       !.keyModules = PropRef(call, "keyModules")]
      [] call.name = "commit_workflows" ->
           [ctx EXCEPT !.workflows = PropRef(call, "workflows")]
      [] call.name = "commit_artifacts" ->
           [ctx EXCEPT !.artifacts = Def(ObjRef(call.id))]
      [] call.name = "commit_benchmarks" ->
           [ctx EXCEPT !.benchmarks = PropRef(call, "benchmarks")]
      [] OTHER -> ctx

\* Mutant of StatusOf: an undeclared name gets a status of its own.
StatusOf_Unknown(name) ==
    CASE name = "commit_overview" -> "Identified Tech Stack & Summary"
      [] name = "commit_architecture" -> "Mapped Architecture & Modules"
      [] name = "commit_workflows" -> "Traced User Journeys"
      [] name = "commit_artifacts" -> "Drafted Documentation Artifacts"
      [] name = "commit_benchmarks" -> "Verified Context with QA"
      [] name = "signal_complete" -> "Analysis Finalized"
      [] OTHER -> "Unknown tool"

\* statusUpdate of the chain; "" when no branch is taken.
StatusOf(name) ==
    CASE name = "commit_overview" -> "Identified Tech Stack & Summary"
      [] name = "commit_architecture" -> "Mapped Architecture & Modules"
      [] name = "commit_workflows" -> "Traced User Journeys"
      [] name = "commit_artifacts" -> "Drafted Documentation Artifacts"
      [] name = "commit_benchmarks" -> "Verified Context with QA"
      [] name = "signal_complete" -> "Analysis Finalized"
      [] OTHER -> ""

\* Mutant of PercentOf: commit_benchmarks reports 100.
PercentOf_BenchmarksFinal(name) ==
    CASE name = "commit_overview" -> 20
      [] name = "commit_architecture" -> 40
      [] name = "commit_workflows" -> 60
      [] name = "commit_artifacts" -> 80
      [] name = "commit_benchmarks" -> 100
      [] name = "signal_complete" -> 100
      [] OTHER -> 0

\* progressUpdate of the chain; 0 when no branch is taken.
PercentOf(name) ==
    CASE name = "commit_overview" -> 20
      [] name = "commit_architecture" -> 40
      [] name = "commit_workflows" -> 60
      [] name = "commit_artifacts" -> 80
      [] name = "commit_benchmarks" -> 95
      [] name = "signal_complete" -> 100
      [] OTHER -> 0

\* isComplete after the chain.
CompleteAfter(flag, call) == flag \/ call.name = "signal_complete"

\* if (onProgress && statusUpdate) onProgress(statusUpdate, progressUpdate)
EmitProgress(log, call) ==
    IF StatusOf(call.name) # ""
    THEN Append(log, [n |-> call.id, status |-> StatusOf(call.name),
                      percent |-> PercentOf(call.name)])
    ELSE log

\* { ...currentContext } : a new object holding the accumulator's own
\* properties; array and object properties are copied as references.
Snapshot(ctx) == [f \in DOMAIN ctx |-> ctx[f]]

\* onPartialUpdate({ ...currentContext })
EmitPartial(log, ctx) == Append(log, Snapshot(ctx))

\* Mutant of ToolPart: the acknowledgement does not carry the id of its
\* invocation.
ToolPart_NoId(call) == [name |-> call.name, id |-> 0, result |-> "ok"]

\* { functionResponse: { name, id, response: { result: toolResult } } }
ToolPart(call) == [name |-> call.name, id |-> call.id, result |-> "ok"]

\* ------------------------------------------------------------- the engine
\* The function calls an engine may emit as the n-th invocation of the
\* session; its id is n.
CallsWithId(n) ==
    UNION { { [name |-> nm, id |-> n, args |-> a] : a \in ArgsFor(nm) } :
            nm \in CallNames }

\* The functionCalls lists of k invocations an engine may put in one
\* response when `done` invocations were made earlier in the session.
RECURSIVE CallLists(_, _)
CallLists(k, done) ==
    IF k = 0 THEN { <<>> }
    ELSE { Append(s, c) : s \in CallLists(k - 1, done),
                          c \in CallsWithId(done + k) }

\* The heap of arrays once the arrays of the args of `calls` exist.
AllocArrs(heap, calls) ==
    LET new == UNION { { ArrRef(calls[i].id, f) :
                           f \in (DOMAIN calls[i].args) \cap ListFields } :
                       i \in 1..Len(calls) }
        first == calls[1].id
    IN [r \in (DOMAIN heap) \cup new |->
          IF r \in DOMAIN heap THEN heap[r]
          ELSE calls[r[1] - first + 1].args[r[2]]]

\* The heap of objects once the args objects of the commit_artifacts
\* invocations of `calls` exist.
AllocObjs(heap, calls) ==
    LET new == { ObjRef(calls[i].id) :
                   i \in { j \in 1..Len(calls) :
                             calls[j].name = "commit_artifacts" } }
        first == calls[1].id
    IN [r \in (DOMAIN heap) \cup new |->
          IF r \in DOMAIN heap THEN heap[r]
          ELSE ArtifactsOf(calls[r[1] - first + 1].args)]

Min(a, b) == IF a < b THEN a ELSE b

\* ---------------------------------------------------------------- actions
\* Mutant of LoopContinues: the `if (isComplete) break` is missing.
LoopContinues_NoBreak == turn < TurnBudget

\* Mutant of LoopContinues: the loop condition is off by one.
LoopContinues_OffByOne == turn <= TurnBudget /\ ~isComplete

\* The loop goes on: `turn < 15` holds and `if (isComplete) break` does
\* not fire.
LoopContinues == turn < TurnBudget /\ ~isComplete

\* Loop head, the loop goes on: the engine call of this turn is issued
\* with the conversation as contents, and the session suspends.
IssueCall ==
    /\ pc = "loop"
    /\ LoopContinues
    /\ pc' = "await"
    /\ engineCalls' = engineCalls + 1
    /\ sent' = messages
    /\ UNCHANGED <<turn, isComplete, currentContext, arrs, objs, messages,
                   response, pending, toolParts, result, rejection,
                   engineError, invoked, progress, partials, idle,
                   quiet, observerWrites>>
    /\ UNCHANGED ragVars

\* Loop exit (budget spent, or `if (isComplete) break`), then
\* `return currentContext`.
Return ==
    /\ pc = "loop"
    /\ ~LoopContinues
    /\ pc' = "returned"
    /\ result' = currentContext
    /\ UNCHANGED <<turn, isComplete, currentContext, arrs, objs, messages,
                   response, pending, toolParts, rejection, engineCalls,
                   sent, engineError, invoked, progress, partials, idle,
                   quiet, observerWrites>>
    /\ UNCHANGED ragVars

\* Mutant of EngineThrows: the error is swallowed and the loop goes to its
\* next iteration.
EngineThrows_Retry ==
    /\ pc = "await"
    /\ \E e \in Errors : engineError' = e
    /\ pc' = "loop"
    /\ turn' = turn + 1
    /\ UNCHANGED <<isComplete, currentContext, arrs, objs, messages,
                   response, pending, toolParts, result, rejection,
                   engineCalls, sent, invoked, progress, partials, idle,
                   quiet, observerWrites>>
    /\ UNCHANGED ragVars

\* The awaited engine call throws: catch (error) { ...; throw error; }
EngineThrows ==
    /\ pc = "await"
    /\ \E e \in Errors :
         /\ engineError' = e
         /\ rejection' = e
    /\ pc' = "thrown"
    /\ UNCHANGED <<turn, isComplete, currentContext, arrs, objs, messages,
                   response, pending, toolParts, result, engineCalls, sent,
                   invoked, progress, partials, idle, quiet,
                   observerWrites>>
    /\ UNCHANGED ragVars

\* Mutant of PushContent: the conversation is cut back to the system
\* instruction before the response is pushed.
PushContent_Restarts(msgs, resp) ==
    IF resp.content
    THEN <<Head(msgs),
           [role |-> "model", functionCalls |-> resp.functionCalls]>>
    ELSE msgs

\* messages after `if (modelContent) messages.push(modelContent)`
PushContent(msgs, resp) ==
    IF resp.content
    THEN Append(msgs, [role |-> "model", functionCalls |-> resp.functionCalls])
    ELSE msgs

\* Script items spent so far.
Scripted == Len(invoked) + idle

\* Mutant of EngineRespondsIdle: a response without function calls ends
\* the loop.
EngineRespondsIdle_Stops ==
    /\ pc = "await"
    /\ \/ /\ ~quiet
          /\ Scripted < MaxScript
          /\ \E content \in BOOLEAN :
               response' = [content |-> content, functionCalls |-> <<>>]
          /\ idle' = idle + 1
          /\ quiet' = FALSE
       \/ /\ response' = [content |-> TRUE, functionCalls |-> <<>>]
          /\ idle' = idle
          /\ quiet' = TRUE
    /\ messages' = PushContent(messages, response')
    /\ turn' = turn + 1
    /\ isComplete' = TRUE
    /\ pc' = "loop"
    /\ UNCHANGED <<currentContext, arrs, objs, pending,
                   toolParts, result, rejection, engineCalls, sent,
                   engineError, invoked, progress, partials, observerWrites>>
    /\ UNCHANGED ragVars

\* The awaited engine call resolves with a response without function
\* calls (with or without a candidate content): the response is pushed
\* and the loop goes to its next iteration.  Either the engine is still
\* active afterwards (one script item), or it is quiet from now on.
EngineRespondsIdle ==
    /\ pc = "await"
    /\ \/ /\ ~quiet
          /\ Scripted < MaxScript
          /\ \E content \in BOOLEAN :
               response' = [content |-> content, functionCalls |-> <<>>]
          /\ idle' = idle + 1
          /\ quiet' = FALSE
       \/ /\ response' = [content |-> TRUE, functionCalls |-> <<>>]
          /\ idle' = idle
          /\ quiet' = TRUE
    /\ messages' = PushContent(messages, response')
    /\ turn' = turn + 1
    /\ pc' = "loop"
    /\ UNCHANGED <<isComplete, currentContext, arrs, objs, pending,
                   toolParts, result, rejection, engineCalls, sent,
                   engineError, invoked, progress, partials, observerWrites>>
    /\ UNCHANGED ragVars

\* The awaited engine call resolves with a response holding k >= 1
\* function calls: the response is pushed and the for-of over
\* functionCalls starts with an empty toolParts.  The function calls of
\* a response are parts of its candidate content, so the content exists.
EngineRespondsCalls ==
    /\ pc = "await"
    /\ ~quiet
    /\ \E k \in 1..Min(MaxPerResponse, MaxScript - Scripted) :
         \E calls \in CallLists(k, Len(invoked)) :
           /\ response' = [content |-> TRUE, functionCalls |-> calls]
           /\ pending' = calls
           /\ arrs' = AllocArrs(arrs, calls)
           /\ objs' = AllocObjs(objs, calls)
    /\ messages' = PushContent(messages, response')
    /\ toolParts' = <<>>
    /\ pc' = "proc"
    /\ UNCHANGED <<turn, isComplete, currentContext, result, rejection,
                   engineCalls, sent, engineError, invoked, progress,
                   partials, idle, quiet,
                   observerWrites>>
    /\ UNCHANGED ragVars

\* Mutant of ProcessCall: the snapshot is taken before the merge.
ProcessCall_SnapshotBeforeMerge ==
    /\ pc = "proc"
    /\ pending # <<>>
    /\ LET call == Head(pending)
       IN /\ currentContext' = Merge(currentContext, call)
          /\ isComplete' = CompleteAfter(isComplete, call)
          /\ progress' = EmitProgress(progress, call)
          /\ partials' = EmitPartial(partials, currentContext)
          /\ toolParts' = Append(toolParts, ToolPart(call))
          /\ invoked' = Append(invoked, [call |-> call, turn |-> turn + 1])
    /\ pending' = Tail(pending)
    /\ UNCHANGED <<pc, turn, arrs, objs, messages, response, result,
                   rejection, engineCalls, sent, engineError, idle,
                   quiet, observerWrites>>
    /\ UNCHANGED ragVars

\* Mutant of ProcessCall: once the completion flag is set, the remaining
\* calls of the response are skipped.
ProcessCall_SkipsAfterComplete ==
    /\ pc = "proc"
    /\ pending # <<>>
    /\ LET call == Head(pending)
       IN IF isComplete
          THEN UNCHANGED <<currentContext, isComplete, progress, partials,
                           toolParts, invoked>>
          ELSE /\ currentContext' = Merge(currentContext, call)
               /\ isComplete' = CompleteAfter(isComplete, call)
               /\ progress' = EmitProgress(progress, call)
               /\ partials' = EmitPartial(partials, currentContext')
               /\ toolParts' = Append(toolParts, ToolPart(call))
               /\ invoked' = Append(invoked, [call |-> call, turn |-> turn + 1])
    /\ pending' = Tail(pending)
    /\ UNCHANGED <<pc, turn, arrs, objs, messages, response, result,
                   rejection, engineCalls, sent, engineError, idle,
                   quiet, observerWrites>>
    /\ UNCHANGED ragVars

\* One iteration of `for (const call of functionCalls)`: merge, progress
\* notification, partial notification, acknowledgement.
ProcessCall ==
    /\ pc = "proc"
    /\ pending # <<>>
    /\ LET call == Head(pending)
       IN /\ currentContext' = Merge(currentContext, call)
          /\ isComplete' = CompleteAfter(isComplete, call)
          /\ progress' = EmitProgress(progress, call)
          /\ partials' = EmitPartial(partials, currentContext')
          /\ toolParts' = Append(toolParts, ToolPart(call))
          /\ invoked' = Append(invoked, [call |-> call, turn |-> turn + 1])
    /\ pending' = Tail(pending)
    /\ UNCHANGED <<pc, turn, arrs, objs, messages, response, result,
                   rejection, engineCalls, sent, engineError, idle,
                   quiet, observerWrites>>
    /\ UNCHANGED ragVars

\* Mutant of PushToolParts: the acknowledgements are not pushed.
PushToolParts_Dropped(msgs, parts) == msgs

\* messages after `if (toolParts.length > 0) messages.push({role:'user',...})`
PushToolParts(msgs, parts) ==
    IF Len(parts) > 0
    THEN Append(msgs, [role |-> "user", parts |-> parts])
    ELSE msgs

\* End of the for-of: the acknowledgements are pushed as one message and
\* the loop goes to its next iteration.
EndTurn ==
    /\ pc = "proc"
    /\ pending = <<>>
    /\ messages' = PushToolParts(messages, toolParts)
    /\ turn' = turn + 1
    /\ pc' = "loop"
    /\ UNCHANGED <<isComplete, currentContext, arrs, objs, response,
                   pending, toolParts, result, rejection, engineCalls, sent,
                   engineError, invoked, progress, partials, idle,
                   quiet, observerWrites>>
    /\ UNCHANGED ragVars

\* An observer holding a delivered snapshot writes through it: it assigns
\* a property of the snapshot object itself, a property of the object its
\* `artifacts` refers to, or pushes onto an array one of its list
\* properties refers to.
ObserverWrite ==
    /\ observerWrites < MaxObserverWrites
    /\ observerWrites' = observerWrites + 1
    /\ \E i \in 1..Len(partials) :
         \/ /\ partials' = [partials EXCEPT ![i].summary = Def("X")]
            /\ UNCHANGED <<arrs, objs>>
         \/ /\ IsDefined(partials[i].artifacts)
            /\ objs' = [objs EXCEPT
                          ![partials[i].artifacts.v].projectOverview = Def("X")]
            /\ UNCHANGED <<arrs, partials>>
         \/ /\ IsDefined(partials[i].techStack)
            /\ arrs' = [arrs EXCEPT
                          ![partials[i].techStack.v] = Append(@, "X")]
            /\ UNCHANGED <<objs, partials>>
    /\ UNCHANGED <<pc, turn, isComplete, currentContext, messages, response,
                   pending, toolParts, result, rejection, engineCalls, sent,
                   engineError, invoked, progress, idle, quiet>>
    /\ UNCHANGED ragVars

Next ==
    \/ IssueCall
    \/ Return
    \/ EngineThrows
    \/ EngineRespondsIdle
    \/ EngineRespondsCalls
    \/ ProcessCall
    \/ EndTurn

Spec == Init /\ [][Next]_vars

\* The session together with an observer that writes through the
\* snapshots it was given.
NextObs == Next \/ ObserverWrite

SpecObs == Init /\ [][NextObs]_vars

\* ============================================================ chunkText
\* A string is a sequence of characters; NL is "\n".
NL == "\n"
Chars == {"a", "b", NL}

\* The texts chunkText is called with.
Texts == UNION { [1..n -> Chars] : n \in 0..MaxTextLen }

\* Positions where a paragraph separator '\n\n' starts.
Breaks(s) == { i \in 1..(Len(s) - 1) : s[i] = NL /\ s[i + 1] = NL }

\* text.split('\n\n'): cut at the leftmost separator, then go on behind it.
RECURSIVE Split(_)
Split(s) ==
    IF Breaks(s) = {}
    THEN <<s>>
    ELSE LET i == CHOOSE b \in Breaks(s) : \A c \in Breaks(s) : b <= c
         IN <<SubSeq(s, 1, i - 1)>> \o Split(SubSeq(s, i + 2, Len(s)))

\* chunks.join('\n\n')
RECURSIVE Join(_)
Join(list) ==
    IF list = <<>> THEN <<>>
    ELSE IF Len(list) = 1 THEN list[1]
    ELSE list[1] \o <<NL, NL>> \o Join(Tail(list))

\* Mutant of ChunkStep: a paragraph that starts a buffer is cut down to
\* maxChunkSize characters.
ChunkStep_Truncates(st, para, maxChunkSize) ==
    IF Len(st.currentChunk) + Len(para) > maxChunkSize
    THEN [chunks |-> Append(st.chunks, st.currentChunk),
          currentChunk |-> SubSeq(para, 1, Min(Len(para), maxChunkSize))]
    ELSE [chunks |-> st.chunks,
          currentChunk |->
              st.currentChunk
                \o (IF st.currentChunk # <<>> THEN <<NL, NL>> ELSE <<>>)
                \o para]

\* One iteration of `for (const para of paragraphs)`.
ChunkStep(st, para, maxChunkSize) ==
    IF Len(st.currentChunk) + Len(para) > maxChunkSize
    THEN [chunks |-> Append(st.chunks, st.currentChunk),
          currentChunk |-> para]
    ELSE [chunks |-> st.chunks,
          currentChunk |->
              st.currentChunk
                \o (IF st.currentChunk # <<>> THEN <<NL, NL>> ELSE <<>>)
                \o para]

\* The for-of loop over the paragraphs from the k-th on.
RECURSIVE ChunkLoop(_, _, _, _)
ChunkLoop(paragraphs, k, st, maxChunkSize) ==
    IF k > Len(paragraphs)
    THEN st
    ELSE ChunkLoop(paragraphs, k + 1,
                   ChunkStep(st, paragraphs[k], maxChunkSize), maxChunkSize)

\* Mutant of ChunkText: the early return takes only strictly shorter texts.
ChunkText_Strict(text, maxChunkSize) ==
    IF Len(text) < maxChunkSize
    THEN <<text>>
    ELSE LET st == ChunkLoop(Split(text), 1,
                             [chunks |-> <<>>, currentChunk |-> <<>>],
                             maxChunkSize)
         IN IF st.currentChunk # <<>>
            THEN Append(st.chunks, st.currentChunk)
            ELSE st.chunks

\* chunkText(text, maxChunkSize)
ChunkText(text, maxChunkSize) ==
    IF Len(text) <= maxChunkSize
    THEN <<text>>
    ELSE LET st == ChunkLoop(Split(text), 1,
                             [chunks |-> <<>>, currentChunk |-> <<>>],
                             maxChunkSize)
         IN IF st.currentChunk # <<>>
            THEN Append(st.chunks, st.currentChunk)
            ELSE st.chunks

\* A call of chunkText with some text and some positive maxChunkSize.
ChunkInit ==
    /\ SessionInit
    /\ EmbedOff
    /\ ExtOff
    /\ ckPc = "called"
    /\ ckText \in Texts
    /\ ckMax \in 1..MaxChunkSize
    /\ ckChunks = <<>>

\* The call returns.
ChunkTextCall ==
    /\ ckPc = "called"
    /\ ckChunks' = ChunkText(ckText, ckMax)
    /\ ckPc' = "returned"
    /\ UNCHANGED <<ckText, ckMax>>
    /\ UNCHANGED exceptChunk

ChunkNext == ChunkTextCall

SpecChunk == ChunkInit /\ [][ChunkNext]_vars

\* ============================================================ embedChunks
Tags == {"MAIN", "REFERENCE"}

\* A file content longer than the default chunk size: a paragraph of
\* DefaultChunkSize characters, a separator, and a short paragraph.
LongText ==
    [n \in 1..(DefaultChunkSize + 3) |->
        IF n <= DefaultChunkSize THEN "a"
        ELSE IF n <= DefaultChunkSize + 2 THEN NL
        ELSE "b"]

\* The j-th file of a corpus; the file at position `long` has LongText.
FileAt(j, long) ==
    [path |-> j,
     contentSnippet |-> IF j = long THEN LongText
                        ELSE IF j % 2 = 1 THEN <<"a">>
                        ELSE <<"b", "b">>]

\* The corpora embedChunks is called with: up to MaxFiles files, none of
\* them long or the one at position BATCH_SIZE.
FileLists ==
    { [j \in 1..n |-> FileAt(j, long)] :
        n \in 0..MaxFiles, long \in {0, BATCH_SIZE} }

\* rawChunks.forEach(c => allTextChunks.push({ text: c, source: f.path }))
PairsOf(f) ==
    LET rawChunks == ChunkText(f.contentSnippet, DefaultChunkSize)
    IN [c \in 1..Len(rawChunks) |-> [text |-> rawChunks[c], source |-> f.path]]

\* files.forEach(f => ...): the pairs of the files from the k-th on.
RECURSIVE Flatten(_, _)
Flatten(files, k) ==
    IF k > Len(files) THEN <<>>
    ELSE PairsOf(files[k]) \o Flatten(files, k + 1)

\* Mutant of Batch: the slice is one pair longer.
Batch_OneMore(all, i) ==
    SubSeq(all, i + 1, Min(i + BATCH_SIZE + 1, Len(all)))

\* allTextChunks.slice(i, i + BATCH_SIZE), i counted from 0
Batch(all, i) == SubSeq(all, i + 1, Min(i + BATCH_SIZE, Len(all)))

\* contents: batch.map(b => b.text)
Contents(batch) == [n \in 1..Len(batch) |-> batch[n].text]

\* The vector the engine computes for the pair at position g of the corpus.
VectorOf(g) == <<g>>

\* The responses the engine may give to the request for the batch of b
\* pairs at offset i: no `embeddings` at all, one entry per text, the first
\* entry without `values`, one entry too few, one entry too many.
Responses(i, b) ==
    LET full == [n \in 1..b |-> [values |-> Def(VectorOf(i + n - 1))]]
    IN { [embeddings |-> Undefined],
         [embeddings |-> Def(full)],
         [embeddings |-> Def([full EXCEPT ![1] = [values |-> Undefined]])],
         [embeddings |-> Def(SubSeq(full, 1, b - 1))],
         [embeddings |-> Def(Append(full, [values |-> Def(VectorOf(i + b))]))] }

\* Mutant of MakeChunk: the source file is that of the first pair of the
\* batch.
MakeChunk_FirstSource(batch, idx, values, i, tag, now) ==
    [id |-> <<tag, now, i + idx>>,
     text |-> batch[idx + 1].text,
     sourceFile |-> batch[1].source,
     embedding |-> values,
     type |-> tag]

\* The VectorChunk pushed for position idx (from 0) of the batch.
MakeChunk(batch, idx, values, i, tag, now) ==
    [id |-> <<tag, now, i + idx>>,
     text |-> batch[idx + 1].text,
     sourceFile |-> batch[idx + 1].source,
     embedding |-> values,
     type |-> tag]

\* Mutant of ForEachEmbedding: the walk ends at the first entry without
\* `values`.
RECURSIVE ForEachEmbedding_StopsAtGap(_, _, _, _, _, _, _)
ForEachEmbedding_StopsAtGap(embeddings, idx, vc, batch, i, tag, now) ==
    IF idx >= Len(embeddings)
    THEN [vectorChunks |-> vc, threw |-> FALSE]
    ELSE LET embeddingValues == embeddings[idx + 1].values
         IN IF IsDefined(embeddingValues)
            THEN IF idx >= Len(batch)
                 THEN [vectorChunks |-> vc, threw |-> TRUE]
                 ELSE ForEachEmbedding_StopsAtGap(
                          embeddings, idx + 1,
                          Append(vc, MakeChunk(batch, idx, embeddingValues.v,
                                               i, tag, now)),
                          batch, i, tag, now)
            ELSE [vectorChunks |-> vc, threw |-> FALSE]

\* Mutant of ForEachEmbedding: a chunk is put in front of those collected
\* so far.
RECURSIVE ForEachEmbedding_Unshift(_, _, _, _, _, _, _)
ForEachEmbedding_Unshift(embeddings, idx, vc, batch, i, tag, now) ==
    IF idx >= Len(embeddings)
    THEN [vectorChunks |-> vc, threw |-> FALSE]
    ELSE LET embeddingValues == embeddings[idx + 1].values
         IN IF IsDefined(embeddingValues)
            THEN IF idx >= Len(batch)
                 THEN [vectorChunks |-> vc, threw |-> TRUE]
                 ELSE ForEachEmbedding_Unshift(
                          embeddings, idx + 1,
                          <<MakeChunk(batch, idx, embeddingValues.v,
                                      i, tag, now)>> \o vc,
                          batch, i, tag, now)
            ELSE ForEachEmbedding_Unshift(embeddings, idx + 1, vc, batch, i,
                                          tag, now)

\* response.embeddings.forEach((emb, idx) => ...) from entry idx on: an
\* entry with `values` pushes a VectorChunk built from batch[idx]; where
\* batch[idx] does not exist, reading its `text` throws a TypeError and the
\* walk is abandoned with what was pushed so far.
RECURSIVE ForEachEmbedding(_, _, _, _, _, _, _)
ForEachEmbedding(embeddings, idx, vc, batch, i, tag, now) ==
    IF idx >= Len(embeddings)
    THEN [vectorChunks |-> vc, threw |-> FALSE]
    ELSE LET embeddingValues == embeddings[idx + 1].values
         IN IF IsDefined(embeddingValues)
            THEN IF idx >= Len(batch)
                 THEN [vectorChunks |-> vc, threw |-> TRUE]
                 ELSE ForEachEmbedding(
                          embeddings, idx + 1,
                          Append(vc, MakeChunk(batch, idx, embeddingValues.v,
                                               i, tag, now)),
                          batch, i, tag, now)
            ELSE ForEachEmbedding(embeddings, idx + 1, vc, batch, i, tag, now)

\* Mutant of ProcessResponse: the chunks of the batch replace those
\* collected before.
ProcessResponse_Replaces(resp, vc, batch, i, tag, now) ==
    IF IsDefined(resp.embeddings)
    THEN ForEachEmbedding(resp.embeddings.v, 0, <<>>, batch, i, tag, now)
    ELSE [vectorChunks |-> vc, threw |-> FALSE]

\* The body of the try block after the response has arrived, up to the
\* point where it completes or throws.
ProcessResponse(resp, vc, batch, i, tag, now) ==
    IF IsDefined(resp.embeddings)
    THEN ForEachEmbedding(resp.embeddings.v, 0, vc, batch, i, tag, now)
    ELSE [vectorChunks |-> vc, threw |-> FALSE]

\* A call of embedChunks with some corpus, some tag and a progress
\* callback.
EmbedInit ==
    /\ SessionInit
    /\ ChunkOff
    /\ ExtOff
    /\ ebPc = "called"
    /\ ebFiles \in FileLists
    /\ ebType \in Tags
    /\ allTextChunks = <<>>
    /\ ebI = 0
    /\ vectorChunks = <<>>
    /\ processed = 0
    /\ ebNow = 0
    /\ ebRequests = <<>>
    /\ ebOutcomes = <<>>
    /\ ebReports = <<>>

\* The files are flattened into pairs and the loop is entered.
FlattenFiles ==
    /\ ebPc = "called"
    /\ allTextChunks' = Flatten(ebFiles, 1)
    /\ ebI' = 0
    /\ processed' = 0
    /\ vectorChunks' = <<>>
    /\ ebPc' = "loop"
    /\ UNCHANGED <<ebFiles, ebType, ebNow, ebRequests, ebOutcomes, ebReports>>
    /\ UNCHANGED exceptEmbed

\* One more batch: its texts are sent to the engine and the run suspends.
IssueBatch ==
    /\ ebPc = "loop"
    /\ ebI < Len(allTextChunks)
    /\ ebRequests' = Append(ebRequests,
                            [i |-> ebI,
                             contents |-> Contents(Batch(allTextChunks, ebI))])
    /\ ebPc' = "await"
    /\ UNCHANGED <<ebFiles, ebType, allTextChunks, ebI, vectorChunks,
                   processed, ebNow, ebOutcomes, ebReports>>
    /\ UNCHANGED exceptEmbed

\* The request rejects: the catch block logs, and the loop goes on.
BatchRejects ==
    /\ ebPc = "await"
    /\ ebOutcomes' = Append(ebOutcomes,
                            [i |-> ebI, kind |-> "rejected",
                             response |-> [embeddings |-> Undefined],
                             now |-> ebNow])
    /\ ebI' = ebI + BATCH_SIZE
    /\ ebPc' = "loop"
    /\ UNCHANGED <<ebFiles, ebType, allTextChunks, vectorChunks, processed,
                   ebNow, ebRequests, ebReports>>
    /\ UNCHANGED exceptEmbed

\* The request resolves at some clock reading: the embeddings are walked;
\* unless the walk throws, the batch is counted and reported.
BatchResolves ==
    /\ ebPc = "await"
    /\ \E now \in ebNow..Min(ebNow + 1, MaxNow) :
       \E resp \in Responses(ebI, Len(Batch(allTextChunks, ebI))) :
         LET batch == Batch(allTextChunks, ebI)
             done == ProcessResponse(resp, vectorChunks, batch, ebI,
                                     ebType, now)
         IN /\ ebNow' = now
            /\ vectorChunks' = done.vectorChunks
            /\ processed' = IF done.threw THEN processed
                            ELSE processed + Len(batch)
            /\ ebReports' = IF done.threw THEN ebReports
                            ELSE Append(ebReports,
                                        <<processed', Len(allTextChunks)>>)
            /\ ebOutcomes' = Append(ebOutcomes,
                                    [i |-> ebI,
                                     kind |-> IF done.threw THEN "threw"
                                              ELSE "resolved",
                                     response |-> resp,
                                     now |-> now])
    /\ ebI' = ebI + BATCH_SIZE
    /\ ebPc' = "loop"
    /\ UNCHANGED <<ebFiles, ebType, allTextChunks, ebRequests>>
    /\ UNCHANGED exceptEmbed

\* The loop ends and the index is returned.
EmbedReturn ==
    /\ ebPc = "loop"
    /\ ebI >= Len(allTextChunks)
    /\ ebPc' = "returned"
    /\ UNCHANGED <<ebFiles, ebType, allTextChunks, ebI, vectorChunks,
                   processed, ebNow, ebRequests, ebOutcomes, ebReports>>
    /\ UNCHANGED exceptEmbed

EmbedNext ==
    \/ FlattenFiles
    \/ IssueBatch
    \/ BatchRejects
    \/ BatchResolves
    \/ EmbedReturn

SpecEmbed == EmbedInit /\ [][EmbedNext]_vars

\* ========================================================== vector index
\* The corpora whose chunks are appended to an index.
IndexFileLists ==
    { [j \in 1..n |-> FileAt(j, 0)] : n \in 0..MaxIndexFiles }

\* A first embedChunks run is called; the index is still empty.
IndexInit ==
    /\ SessionInit
    /\ EditorOff
    /\ ChunkOff
    /\ IndexOff
    /\ RetrieveOff
    /\ PairOff
    /\ FetchOff
    /\ AppOff
    /\ ebPc = "called"
    /\ ebFiles \in IndexFileLists
    /\ ebType \in Tags
    /\ allTextChunks = <<>>
    /\ ebI = 0
    /\ vectorChunks = <<>>
    /\ processed = 0
    /\ ebNow = 0
    /\ ebRequests = <<>>
    /\ ebOutcomes = <<>>
    /\ ebReports = <<>>

\* The caller appends the chunks a run returned to the index; unless
\* MaxRuns runs were appended, embedChunks is called for another corpus.
\* The clock does not go back between runs.
AppendRun ==
    /\ ebPc = "returned"
    /\ runs < MaxRuns
    /\ vectorIndex' = vectorIndex \o vectorChunks
    /\ runs' = runs + 1
    /\ IF runs + 1 < MaxRuns
       THEN /\ ebPc' = "called"
            /\ ebFiles' \in IndexFileLists
            /\ ebType' \in Tags
       ELSE /\ ebPc' = "off"
            /\ ebFiles' = <<>>
            /\ ebType' = "MAIN"
    /\ allTextChunks' = <<>>
    /\ ebI' = 0
    /\ vectorChunks' = <<>>
    /\ processed' = 0
    /\ ebRequests' = <<>>
    /\ ebOutcomes' = <<>>
    /\ ebReports' = <<>>
    /\ UNCHANGED ebNow
    /\ UNCHANGED exceptRun

IndexNext ==
    \/ FlattenFiles
    \/ IssueBatch
    \/ BatchRejects
    \/ BatchResolves
    \/ EmbedReturn
    \/ AppendRun

SpecIndex == IndexInit /\ [][IndexNext]_vars

\* ======================================================= retrieveContext
\* Embedding vectors: two components, whole numbers ([9, 1] stands for
\* [0.9, 0.1], which has the same direction).
Vectors == { <<1, 0>>, <<0, 1>>, <<9, 1>>, <<-1, 0>>, <<0, 0>> }

\* The indexes retrieveContext is called with; the id of a chunk is its
\* position.
Indexes ==
    UNION { { [p \in 1..n |-> [id |-> p, embedding |-> e[p]]] :
                e \in [1..n -> Vectors] } : n \in 0..MaxIndexLen }

\* The responses the engine may give to the query request: no
\* `embeddings`, an empty list, an entry without `values`, a vector.
QueryResponses ==
    { [embeddings |-> Undefined],
      [embeddings |-> Def(<<>>)],
      [embeddings |-> Def(<<[values |-> Undefined]>>)] }
    \cup { [embeddings |-> Def(<<[values |-> Def(q)]>>)] : q \in Vectors }

\* Mutant of QueryEmbedding: a missing vector is replaced by a zero vector.
QueryEmbedding_ZeroDefault(resp) ==
    IF IsDefined(resp.embeddings) /\ Len(resp.embeddings.v) >= 1
         /\ IsDefined(resp.embeddings.v[1].values)
    THEN resp.embeddings.v[1].values
    ELSE Def(<<0, 0>>)

\* response.embeddings?.[0]?.values
QueryEmbedding(resp) ==
    IF IsDefined(resp.embeddings) /\ Len(resp.embeddings.v) >= 1
    THEN resp.embeddings.v[1].values
    ELSE Undefined

\* The sum of f[1] .. f[n].
RECURSIVE SumTo(_, _)
SumTo(f, n) == IF n = 0 THEN 0 ELSE SumTo(f, n - 1) + f[n]

\* cosineSimilarity(vecA, vecB): the three sums of the loop; the quotient
\* dotProduct / (sqrt(magnitudeA) * sqrt(magnitudeB)) is kept as its
\* numerator and the squares under the roots, and is NaN (0 / 0) when a
\* magnitude is zero.
CosineSimilarity(vecA, vecB) ==
    LET n == Len(vecA)
        dotProduct == SumTo([k \in 1..n |-> vecA[k] * vecB[k]], n)
        magnitudeA == SumTo([k \in 1..n |-> vecA[k] * vecA[k]], n)
        magnitudeB == SumTo([k \in 1..n |-> vecB[k] * vecB[k]], n)
    IN [nan |-> magnitudeA = 0 \/ magnitudeB = 0,
        dot |-> dotProduct,
        magA |-> magnitudeA,
        magB |-> magnitudeB]

\* The sign of a whole number.
Sgn(x) == IF x > 0 THEN 1 ELSE IF x < 0 THEN -1 ELSE 0

\* s > t for two scores that are numbers: the quotients are compared
\* through their signed squares.
Greater(s, t) ==
    Sgn(s.dot) * s.dot * s.dot * t.magA * t.magB
      > Sgn(t.dot) * t.dot * t.dot * s.magA * s.magB

\* Mutant of SortCompare: the comparator is a.score - b.score.
SortCompare_Ascending(a, b) ==
    IF a.score.nan \/ b.score.nan THEN 0
    ELSE IF Greater(a.score, b.score) THEN 1
    ELSE IF Greater(b.score, a.score) THEN -1
    ELSE 0

\* The comparator (a, b) => b.score - a.score as the sort reads it: its
\* sign, with NaN read as +0.
SortCompare(a, b) ==
    IF a.score.nan \/ b.score.nan THEN 0
    ELSE IF Greater(b.score, a.score) THEN 1
    ELSE IF Greater(a.score, b.score) THEN -1
    ELSE 0

\* index.map(chunk => ({ chunk, score: cosineSimilarity(...) }))
Scored(queryEmbedding, index) ==
    [p \in 1..Len(index) |->
        [chunk |-> index[p],
         score |-> CosineSimilarity(queryEmbedding, index[p].embedding)]]

\* x put into a list sorted by SortCompare, behind every element that does
\* not have to come after it.
RECURSIVE InsertSorted(_, _)
InsertSorted(sorted, x) ==
    IF sorted = <<>> THEN <<x>>
    ELSE LET last == sorted[Len(sorted)]
         IN IF SortCompare(last, x) > 0
            THEN Append(InsertSorted(SubSeq(sorted, 1, Len(sorted) - 1), x),
                        last)
            ELSE Append(sorted, x)

\* The stable sort of the first n elements of a list.
RECURSIVE StableSort(_, _)
StableSort(list, n) ==
    IF n = 0 THEN <<>>
    ELSE InsertSorted(StableSort(list, n - 1), list[n])

\* SortCompare is a consistent comparator for the elements of the list:
\* being tied and coming first are both transitive.
Consistent(list) ==
    \A a, b, c \in 1..Len(list) :
        /\ (SortCompare(list[a], list[b]) = 0
              /\ SortCompare(list[b], list[c]) = 0)
             => SortCompare(list[a], list[c]) = 0
        /\ (SortCompare(list[a], list[b]) < 0
              /\ SortCompare(list[b], list[c]) < 0)
             => SortCompare(list[a], list[c]) < 0

\* The rearrangements of a list.
Rearrangements(list) ==
    { [p \in 1..Len(list) |-> list[f[p]]] :
        f \in { g \in [1..Len(list) -> 1..Len(list)] :
                  \A x, y \in 1..Len(list) : x # y => g[x] # g[y] } }

\* The lists scored.sort(...) may leave behind: the stable sort when the
\* comparator is consistent; otherwise the order is up to the engine
\* (ECMAScript: implementation-defined), the elements stay the same.
SortOutcomes(list) ==
    IF Consistent(list)
    THEN { StableSort(list, Len(list)) }
    ELSE Rearrangements(list)

\* Mutant of TopChunks: entries whose score is not a number are filtered
\* out before the slice.
TopChunks_DefinedOnly(sorted, topK) ==
    LET kept == SelectSeq(sorted, LAMBDA s : ~s.score.nan)
    IN [p \in 1..Min(topK, Len(kept)) |-> kept[p].chunk]

\* scored.slice(0, topK).map(s => s.chunk), for topK >= 0
TopChunks(sorted, topK) ==
    [p \in 1..Min(topK, Len(sorted)) |-> sorted[p].chunk]

\* Mutant of EarlyReturn: the index is never taken to be empty.
EarlyReturn_Never(index) == FALSE

\* if (index.length === 0) return [];
EarlyReturn(index) == Len(index) = 0

\* A call of retrieveContext with some index and some topK >= 0.
RetrieveInit ==
    /\ SessionInit
    /\ EditorOff
    /\ ChunkOff
    /\ EmbedOff
    /\ IndexOff
    /\ PairOff
    /\ FetchOff
    /\ AppOff
    /\ rtPc = "called"
    /\ rtIndex \in Indexes
    /\ rtTopK \in 0..MaxTopK
    /\ rtRequests = 0
    /\ rtResponse = Undefined
    /\ rtScored = <<>>
    /\ rtCompared = 0
    /\ rtResult = Undefined

\* The index is empty: [] is returned at once.
RetrieveEmpty ==
    /\ rtPc = "called"
    /\ EarlyReturn(rtIndex)
    /\ rtResult' = Def(<<>>)
    /\ rtPc' = "returned"
    /\ UNCHANGED <<rtIndex, rtTopK, rtRequests, rtResponse, rtScored,
                   rtCompared>>
    /\ UNCHANGED exceptRetrieve

\* The embedding of the query is requested and the call suspends.
RetrieveRequest ==
    /\ rtPc = "called"
    /\ ~EarlyReturn(rtIndex)
    /\ rtRequests' = rtRequests + 1
    /\ rtPc' = "await"
    /\ UNCHANGED <<rtIndex, rtTopK, rtResponse, rtScored, rtCompared,
                   rtResult>>
    /\ UNCHANGED exceptRetrieve

\* Mutant of RetrieveRejects: the error is thrown on to the caller.
RetrieveRejects_Rethrows ==
    /\ rtPc = "await"
    /\ rtPc' = "thrown"
    /\ UNCHANGED <<rtIndex, rtTopK, rtRequests, rtResponse, rtScored,
                   rtCompared, rtResult>>
    /\ UNCHANGED exceptRetrieve

\* The request rejects: the catch block logs and returns [].
RetrieveRejects ==
    /\ rtPc = "await"
    /\ rtResult' = Def(<<>>)
    /\ rtPc' = "returned"
    /\ UNCHANGED <<rtIndex, rtTopK, rtRequests, rtResponse, rtScored,
                   rtCompared>>
    /\ UNCHANGED exceptRetrieve

\* The request resolves: without a query vector [] is returned; with one,
\* every chunk is scored, the scores are sorted and the chunks of the
\* first topK are returned.
RetrieveResolves ==
    /\ rtPc = "await"
    /\ \E resp \in QueryResponses :
         LET queryEmbedding == QueryEmbedding(resp)
         IN /\ rtResponse' = Def(resp)
            /\ IF ~IsDefined(queryEmbedding)
               THEN /\ rtResult' = Def(<<>>)
                    /\ UNCHANGED <<rtScored, rtCompared>>
               ELSE /\ rtScored' \in SortOutcomes(Scored(queryEmbedding.v,
                                                         rtIndex))
                    /\ rtCompared' = rtCompared + Len(rtIndex)
                    /\ rtResult' = Def(TopChunks(rtScored', rtTopK))
    /\ rtPc' = "returned"
    /\ UNCHANGED <<rtIndex, rtTopK, rtRequests>>
    /\ UNCHANGED exceptRetrieve

RetrieveNext ==
    \/ RetrieveEmpty
    \/ RetrieveRequest
    \/ RetrieveRejects
    \/ RetrieveResolves

SpecRetrieve == RetrieveInit /\ [][RetrieveNext]_vars

\* The two entry points of ragService: a call of embedChunks or a call of
\* retrieveContext.
RagInit == EmbedInit \/ RetrieveInit

RagNext == EmbedNext \/ RetrieveNext

SpecRag == RagInit /\ [][RagNext]_vars

\* ===================================================== two sessions
\* Two calls of analyzeRepo are in progress.  JavaScript runs a call from
\* one suspension point to the next without interruption, so a session
\* takes one step from the arrival of a response to its next
\* generateContent call.
Sessions == {1, 2}

\* The number below the ids of session s; it also names the objects of
\* the session's initial context literal.
BaseOf(s) == (s - 1) * PairIdBase

\* The initial context literal evaluated by the call with base b.
ContextLiteral(b) ==
    [summary |-> Def(""),
     techStack |-> Def(ArrRef(b, "techStack")),
     entryPoints |-> Def(ArrRef(b, "entryPoints")),
     keyModules |-> Def(ArrRef(b, "keyModules")),
     workflows |-> Def(ArrRef(b, "workflows")),
     artifacts |-> Def(ObjRef(b)),
     benchmarks |-> Def(ArrRef(b, "benchmarks"))]

\* The function calls the engine may emit as the n-th invocation of
\* session s: the terminal signal, or a well-formed overview or artifacts
\* commit whose texts are "A" for the first session and "B" for the
\* second.
PairCalls(n, s) ==
    LET mark == IF s = 1 THEN "A" ELSE "B"
    IN { c \in CallsWithId(BaseOf(s) + n) :
           \/ c.name = "signal_complete"
           \/ /\ c.name = "commit_overview"
              /\ WellFormed(c)
              /\ c.args.summary = mark
           \/ /\ c.name = "commit_artifacts"
              /\ WellFormed(c)
              /\ c.args.projectOverview = mark }

\* The functionCalls lists of k invocations for session s after `done`
\* invocations.
RECURSIVE PairCallLists(_, _, _)
PairCallLists(k, done, s) ==
    IF k = 0 THEN { <<>> }
    ELSE { Append(l, c) : l \in PairCallLists(k - 1, done, s),
                          c \in PairCalls(done + k, s) }

\* Mutant of OwnerOf: the accumulator is a module-level singleton, the one
\* of the first session.
OwnerOf_Singleton(s) == 1

\* The session whose accumulator session s reads and writes: its own,
\* `const currentContext` being declared in the body of analyzeRepo.
OwnerOf(s) == s

\* The for-of over the function calls of one response, run to its end.
RECURSIVE ProcessCalls(_, _)
ProcessCalls(st, calls) ==
    IF calls = <<>> THEN st
    ELSE LET call == Head(calls)
             merged == Merge(st.currentContext, call)
         IN ProcessCalls(
                [currentContext |-> merged,
                 isComplete |-> CompleteAfter(st.isComplete, call),
                 partials |-> EmitPartial(st.partials, merged),
                 toolParts |-> Append(st.toolParts, ToolPart(call)),
                 invoked |-> Append(st.invoked, call)],
                Tail(calls))

\* Invocations processed by both sessions so far.
PairScripted == Len(sess[1].invoked) + Len(sess[2].invoked)

PairInit ==
    /\ SessionInit
    /\ EditorOff
    /\ ChunkOff
    /\ EmbedOff
    /\ IndexOff
    /\ RetrieveOff
    /\ FetchOff
    /\ AppOff
    /\ sess = [s \in Sessions |->
                 [pc |-> "loop", turn |-> 0, isComplete |-> FALSE,
                  currentContext |-> ContextLiteral(BaseOf(s)),
                  messages |-> <<SystemMessage>>, sent |-> <<>>,
                  invoked |-> <<>>, partials |-> <<>>,
                  result |-> Undefined, quiet |-> FALSE]]
    /\ prArrs = [r \in {ArrRef(BaseOf(s), f) : s \in Sessions, f \in ListFields}
                   |-> <<>>]
    /\ prObjs = [r \in {ObjRef(BaseOf(s)) : s \in Sessions}
                   |-> [f \in ArtifactFields |-> Def("")]]

\* Loop head of session s, the loop goes on: the engine call is issued.
PairIssue(s) ==
    /\ sess[s].pc = "loop"
    /\ sess[s].turn < TurnBudget /\ ~sess[s].isComplete
    /\ sess' = [sess EXCEPT ![s].pc = "await",
                            ![s].sent = sess[s].messages]
    /\ UNCHANGED <<prArrs, prObjs>>
    /\ UNCHANGED exceptPair

\* Loop exit of session s: `return currentContext`.
PairReturn(s) ==
    /\ sess[s].pc = "loop"
    /\ ~(sess[s].turn < TurnBudget /\ ~sess[s].isComplete)
    /\ sess' = [sess EXCEPT
                  ![s].pc = "returned",
                  ![s].result = Def(sess[OwnerOf(s)].currentContext)]
    /\ UNCHANGED <<prArrs, prObjs>>
    /\ UNCHANGED exceptPair

\* The engine call of session s throws and the session rejects.
PairThrows(s) ==
    /\ sess[s].pc = "await"
    /\ sess' = [sess EXCEPT ![s].pc = "thrown"]
    /\ UNCHANGED <<prArrs, prObjs>>
    /\ UNCHANGED exceptPair

\* The engine call of session s resolves with k >= 0 function calls (none
\* once the engine has gone quiet): the response is pushed, every call is
\* merged, reported and acknowledged, the acknowledgements are pushed and
\* the loop goes to its next iteration.
PairResponds(s) ==
    /\ sess[s].pc = "await"
    /\ \E k \in 0..(IF sess[s].quiet THEN 0
                    ELSE Min(MaxPerResponse, MaxPairScript - PairScripted)) :
       \E calls \in PairCallLists(k, Len(sess[s].invoked), s) :
         LET o == OwnerOf(s)
             resp == [content |-> TRUE, functionCalls |-> calls]
             done == ProcessCalls(
                         [currentContext |-> sess[o].currentContext,
                          isComplete |-> sess[s].isComplete,
                          partials |-> sess[s].partials,
                          toolParts |-> <<>>,
                          invoked |-> sess[s].invoked],
                         calls)
         IN /\ sess' = [sess EXCEPT
                          ![s].messages =
                              PushToolParts(PushContent(sess[s].messages, resp),
                                            done.toolParts),
                          ![s].isComplete = done.isComplete,
                          ![s].partials = done.partials,
                          ![s].invoked = done.invoked,
                          ![s].quiet = (k = 0),
                          ![s].turn = sess[s].turn + 1,
                          ![s].pc = "loop",
                          ![o].currentContext = done.currentContext]
            /\ prArrs' = IF k = 0 THEN prArrs ELSE AllocArrs(prArrs, calls)
            /\ prObjs' = IF k = 0 THEN prObjs ELSE AllocObjs(prObjs, calls)
    /\ UNCHANGED exceptPair

PairNext ==
    \/ \E s \in Sessions : PairIssue(s)
    \/ \E s \in Sessions : PairReturn(s)
    \/ \E s \in Sessions : PairThrows(s)
    \/ \E s \in Sessions : PairResponds(s)

SpecPair == PairInit /\ [][PairNext]_vars

\* ======================================================== fetchRepoData
\* The two implementations of fetchRepoData: githubService fetches in
\* batches, mockGithubService (the one the application imports) maps
\* fetchFile over all of filesToFetch.
Services == {"github", "mock"}

\* filesToFetch.slice(i, i + BATCH_SIZE), as the set of its files.
BatchAt(i) == { f \in 1..filesToFetch : i < f /\ f <= i + FETCH_BATCH_SIZE }

\* The files of a set that gave a summary, in the order of filesToFetch.
RECURSIVE Collected(_, _, _)
Collected(from, to, got) ==
    IF from > to THEN <<>>
    ELSE (IF from \in got THEN <<from>> ELSE <<>>)
         \o Collected(from + 1, to, got)

\* `if (files.length === 0) throw ...; return { url, files }`
Outcome(fs) == IF Len(fs) = 0 THEN "thrown" ELSE "returned"

\* filesToFetch has been selected; nothing is fetched yet.
FetchInit ==
    /\ SessionInit
    /\ EditorOff
    /\ ChunkOff
    /\ EmbedOff
    /\ IndexOff
    /\ RetrieveOff
    /\ PairOff
    /\ AppOff
    /\ ftPc = "start"
    /\ ftService \in Services
    /\ filesToFetch \in 0..MaxFetch
    /\ ftI = 0
    /\ ftOutstanding = {}
    /\ ftGot = {}
    /\ ftFiles = <<>>

\* githubService, loop head with i < filesToFetch.length: batch.map starts
\* fetchFileContent for every file of the batch, each runs up to its
\* request, and Promise.all is awaited.
FetchBatch ==
    /\ ftPc = "start" /\ ftService = "github"
    /\ ftI < filesToFetch
    /\ ftOutstanding' = BatchAt(ftI)
    /\ ftGot' = {}
    /\ ftPc' = "await"
    /\ UNCHANGED <<ftService, filesToFetch, ftI, ftFiles>>
    /\ UNCHANGED exceptFetch

\* githubService, Promise.all of the batch resolves: the summaries that
\* are not null are pushed in order and i advances by BATCH_SIZE.
FetchBatchDone ==
    /\ ftPc = "await" /\ ftService = "github"
    /\ ftOutstanding = {}
    /\ ftFiles' = ftFiles \o Collected(ftI + 1, ftI + FETCH_BATCH_SIZE, ftGot)
    /\ ftI' = ftI + FETCH_BATCH_SIZE
    /\ ftGot' = {}
    /\ ftPc' = "start"
    /\ UNCHANGED <<ftService, filesToFetch, ftOutstanding>>
    /\ UNCHANGED exceptFetch

\* githubService, loop exit: throw when no file was collected, else return.
FetchLoopExit ==
    /\ ftPc = "start" /\ ftService = "github"
    /\ ~(ftI < filesToFetch)
    /\ ftPc' = Outcome(ftFiles)
    /\ UNCHANGED <<ftService, filesToFetch, ftI, ftOutstanding, ftGot, ftFiles>>
    /\ UNCHANGED exceptFetch

\* mockGithubService: filesToFetch.map(fetchFile) starts fetchFile for every
\* file, each runs up to its fetch, and Promise.all is awaited.
FetchAll ==
    /\ ftPc = "start" /\ ftService = "mock"
    /\ ftOutstanding' = 1..filesToFetch
    /\ ftGot' = {}
    /\ ftPc' = "await"
    /\ UNCHANGED <<ftService, filesToFetch, ftI, ftFiles>>
    /\ UNCHANGED exceptFetch

\* mockGithubService, Promise.all resolves: results.filter(f => f !== null),
\* then throw when no file was collected, else return.
FetchAllDone ==
    /\ ftPc = "await" /\ ftService = "mock"
    /\ ftOutstanding = {}
    /\ ftFiles' = Collected(1, filesToFetch, ftGot)
    /\ ftPc' = Outcome(ftFiles')
    /\ ftGot' = {}
    /\ UNCHANGED <<ftService, filesToFetch, ftI, ftOutstanding>>
    /\ UNCHANGED exceptFetch

\* The content request of file f settles: the file function returns a
\* summary, or null (request failed, not ok, binary or too large).
FileSettles(f, summary) ==
    /\ ftPc = "await"
    /\ f \in ftOutstanding
    /\ ftOutstanding' = ftOutstanding \ {f}
    /\ ftGot' = IF summary THEN ftGot \cup {f} ELSE ftGot
    /\ UNCHANGED <<ftPc, ftService, filesToFetch, ftI, ftFiles>>
    /\ UNCHANGED exceptFetch

FetchNext ==
    \/ FetchBatch
    \/ FetchBatchDone
    \/ FetchLoopExit
    \/ FetchAll
    \/ FetchAllDone
    \/ \E f \in 1..MaxFetch, summary \in BOOLEAN : FileSettles(f, summary)

SpecFetch == FetchInit /\ [][FetchNext]_vars

\* ======================================================== handleAnalyze
\* The analyzeRepo call handleAnalyze awaits is session 1; its snapshots
\* are handed to the partial-data callback, which queues an updater of
\* repoContext for each.
AppSession == 1

\* The id under which the arrays of the initialContext literal are kept.
AppBase == 2 * PairIdBase

AppListFields == ListFields \cup {"vectorIndex", "referenceRepos"}

\* const initialContext: RepoContext = { summary: "", ..., vectorIndex: [],
\* referenceRepos: [] }
InitialAppContext ==
    [summary |-> Def(""),
     techStack |-> Def(ArrRef(AppBase, "techStack")),
     entryPoints |-> Def(ArrRef(AppBase, "entryPoints")),
     keyModules |-> Def(ArrRef(AppBase, "keyModules")),
     workflows |-> Def(ArrRef(AppBase, "workflows")),
     artifacts |-> Def(ObjRef(AppBase)),
     benchmarks |-> Def(ArrRef(AppBase, "benchmarks")),
     vectorIndex |-> Def(ArrRef(AppBase, "vectorIndex")),
     referenceRepos |-> Def(ArrRef(AppBase, "referenceRepos"))]

\* { ...prev, ...partial }: the properties of partial, and those of prev
\* that partial does not have.
Spread(prev, partial) ==
    [f \in DOMAIN prev \cup DOMAIN partial |->
        IF f \in DOMAIN partial THEN partial[f] ELSE prev[f]]

\* prev => prev ? ({ ...prev, ...partialContext }) : partialContext
Updater(prev, partialContext) ==
    IF IsDefined(prev) THEN Def(Spread(prev.v, partialContext))
    ELSE Def(partialContext)

\* handleAnalyze has fetched the files and called
\* setRepoContext(initialContext); analyzeRepo is entered.
AppInit ==
    /\ SessionInit
    /\ EditorOff
    /\ ChunkOff
    /\ EmbedOff
    /\ IndexOff
    /\ RetrieveOff
    /\ FetchOff
    /\ sess = [s \in Sessions |->
                 [pc |-> IF s = AppSession THEN "loop" ELSE "off",
                  turn |-> 0, isComplete |-> FALSE,
                  currentContext |-> ContextLiteral(BaseOf(s)),
                  messages |-> <<SystemMessage>>, sent |-> <<>>,
                  invoked |-> <<>>, partials |-> <<>>,
                  result |-> Undefined, quiet |-> FALSE]]
    /\ prArrs = [r \in {ArrRef(BaseOf(s), f) : s \in Sessions, f \in ListFields}
                       \cup {ArrRef(AppBase, f) : f \in AppListFields}
                   |-> <<>>]
    /\ prObjs = [r \in {ObjRef(BaseOf(s)) : s \in Sessions} \cup {ObjRef(AppBase)}
                   |-> [f \in ArtifactFields |-> Def("")]]
    /\ appPc = "analyzing"
    /\ repoContext = Def(InitialAppContext)
    /\ step = "LANDING"
    /\ applied = 0

\* React runs the next queued updater of the partial-data callback.
AppUpdate ==
    /\ appPc # "off"
    /\ applied < Len(sess[AppSession].partials)
    /\ repoContext' = Updater(repoContext,
                              sess[AppSession].partials[applied + 1])
    /\ applied' = applied + 1
    /\ UNCHANGED <<appPc, step>>
    /\ UNCHANGED exceptApp

\* analyzeRepo has returned: setRepoContext(finalAnalysis) replaces the
\* context, after the updaters queued before it, and
\* setStep(AppStep.OVERVIEW).
AppFinish ==
    /\ appPc = "analyzing"
    /\ sess[AppSession].pc = "returned"
    /\ applied = Len(sess[AppSession].partials)
    /\ repoContext' = sess[AppSession].result
    /\ step' = "OVERVIEW"
    /\ appPc' = "done"
    /\ UNCHANGED applied
    /\ UNCHANGED exceptApp

\* analyzeRepo has rejected: the catch block reports the error and leaves
\* repoContext and step as they are.
AppCatch ==
    /\ appPc = "analyzing"
    /\ sess[AppSession].pc = "thrown"
    /\ appPc' = "failed"
    /\ UNCHANGED <<repoContext, step, applied>>
    /\ UNCHANGED exceptApp

AppNext ==
    \/ PairIssue(AppSession)
    \/ PairReturn(AppSession)
    \/ PairThrows(AppSession)
    \/ PairResponds(AppSession)
    \/ AppUpdate
    \/ AppFinish
    \/ AppCatch

SpecApp == AppInit /\ [][AppNext]_vars

\* =========================================================== DocEditor
\* The document editor: its React state, the handlers the user's events run
\* and the completions of the engine calls the handlers await.  A handler
\* reads activeFile and activeSection of the render it was created in, so an
\* awaited call carries the sections of that render to its completion.

EdFileIds == 1..MaxEdFiles

ViewModes == {"edit", "split", "preview", "diff"}

\* What the user can have in the textarea, and what the engine writes.
UserTexts == {"", "u"}
DraftTexts == {"", "d"}
SuggestedText == "p"

\* A section as generateDocOutline returns it: { ...s, isDrafted: false },
\* with no content, no revisions and no proposal.
NewSection(k) ==
    [id |-> k, content |-> Undefined, isDrafted |-> FALSE,
     revisions |-> Undefined, proposal |-> Undefined]

\* The outlines generateDocOutline can resolve with.
Outlines == {[k \in 1..n |-> NewSection(k)] : n \in 0..MaxEdSections}

\* The files the editor is mounted with: no outline generated yet.
InitialFiles == [f \in EdFileIds |-> [sections |-> <<>>, isLoaded |-> FALSE]]

\* JavaScript truthiness of a section's content.
Truthy(c) == IsDefined(c) /\ c.v # ""

\* content || ''
ContentOrEmpty(c) == IF Truthy(c) THEN c.v ELSE ""

\* sections.findIndex(s => s.id === sectionId), 0 for -1.
IndexOfSection(secs, sectionId) ==
    LET ks == {k \in 1..Len(secs) : secs[k].id = sectionId}
    IN IF ks = {} THEN 0 ELSE CHOOSE k \in ks : \A j \in ks : k <= j

\* The sections of the active file in the current render.
ActiveSections == edFiles[activeFileId].sections

\* The position of activeSection in the active file, 0 when there is none.
ActiveIdx == IndexOfSection(ActiveSections, activeSectionId)

\* setFiles(prev => prev.map(f => f.id === activeFileId
\*                                 ? { ...f, sections: newSections } : f))
SetSections(fs, fileId, newSections) ==
    [f \in DOMAIN fs |->
        IF f = fileId THEN [fs[f] EXCEPT !.sections = newSections] ELSE fs[f]]

\* activeFile.sections.map(s => s.id === activeSectionId ? change(s) : s)
\* with the one field a handler changes.
MapSection(secs, sectionId, field, value) ==
    [k \in 1..Len(secs) |->
        IF secs[k].id = sectionId
        THEN [secs[k] EXCEPT ![field] = value]
        ELSE secs[k]]

\* An awaited engine call: what its handler captured, and the sections of
\* its file the user has edited since.
EdOp(kind, fileId, sectionId, idx, secs) ==
    [kind |-> kind, file |-> fileId, section |-> sectionId, idx |-> idx,
     sections |-> secs, edited |-> {}]

\* The revision a handler builds; id and timestamp are left out.
Revision(content, author, reason) ==
    [content |-> content, author |-> author, reason |-> reason]

\* The proposal proposeRefinement or the audit's suggestion gives.
Proposal(type) ==
    [suggestedContent |-> SuggestedText, reason |-> "reason", type |-> type]

\* [newRevision, ...s.revisions]: spreading undefined throws a TypeError.
SpreadThrows(section) == ~IsDefined(section.revisions)

WithoutOp(ops, i) == [k \in 1..(Len(ops) - 1) |->
                         IF k < i THEN ops[k] ELSE ops[k + 1]]

Handled(handler, threw, fileId, idx) ==
    [handler |-> handler, threw |-> threw, file |-> fileId, idx |-> idx]

\* draftSection(sectionId) in a render with files fs and active file fileId:
\* the engine calls it starts.
DraftSection(fs, fileId, sectionId) ==
    LET secs == fs[fileId].sections
        idx == IndexOfSection(secs, sectionId)
    IN IF sectionId = 0 \/ idx = 0 THEN <<>>
       ELSE IF secs[idx].isDrafted \/ Truthy(secs[idx].content) THEN <<>>
       ELSE <<EdOp("draft", fileId, sectionId, idx, secs)>>

\* The editor is mounted; the effect on activeFileId asks for the outline of
\* the first file.
EditorInit ==
    /\ SessionInit
    /\ ChunkOff
    /\ EmbedOff
    /\ IndexOff
    /\ RetrieveOff
    /\ PairOff
    /\ FetchOff
    /\ AppOff
    /\ edFiles = InitialFiles
    /\ activeFileId = 1
    /\ activeSectionId = 0
    /\ isDrafting = TRUE
    /\ isAuditing = FALSE
    /\ viewMode = "split"
    /\ chatMessages = <<"greeting">>
    /\ edOps = <<EdOp("outline", 1, 0, 0, <<>>)>>
    /\ edEvents = 0
    /\ edLast = Handled("mount", FALSE, 1, 0)

\* The user presses a file button: setActiveFileId, then loadOutlineIfNeeded.
SelectFile(f) ==
    /\ edFiles # <<>>
    /\ edEvents < MaxEdEvents
    /\ f \in EdFileIds
    /\ f # activeFileId
    /\ Len(edOps) < MaxEdOps
    /\ LET file == edFiles[f]
           first == IF file.isLoaded /\ file.sections # <<>>
                       /\ activeSectionId = 0
                    THEN file.sections[1].id ELSE activeSectionId
           drafts == IF first # activeSectionId
                     THEN DraftSection(edFiles, f, first) ELSE <<>>
       IN /\ activeFileId' = f
          /\ activeSectionId' = first
          /\ edOps' = IF file.isLoaded THEN edOps \o drafts
                      ELSE Append(edOps, EdOp("outline", f, 0, 0, <<>>))
          /\ isDrafting' = IF file.isLoaded
                           THEN (isDrafting \/ drafts # <<>>) ELSE TRUE
    /\ edEvents' = edEvents + 1
    /\ edLast' = Handled("setActiveFileId", FALSE, f, 0)
    /\ UNCHANGED <<edFiles, isAuditing, viewMode, chatMessages>>
    /\ UNCHANGED exceptEditor

\* generateDocOutline resolves: the file gets its sections, the first one
\* becomes active, and the effect on activeSectionId drafts it.
OutlineResolves(i, sections) ==
    /\ i \in 1..Len(edOps)
    /\ edOps[i].kind = "outline"
    /\ sections \in Outlines
    /\ LET op == edOps[i]
           fs == [f \in DOMAIN edFiles |->
                    IF f = op.file
                    THEN [sections |-> sections, isLoaded |-> TRUE]
                    ELSE edFiles[f]]
           first == IF sections # <<>> THEN sections[1].id
                    ELSE activeSectionId
           drafts == IF first # activeSectionId
                     THEN DraftSection(fs, activeFileId, first) ELSE <<>>
       IN /\ edFiles' = fs
          /\ activeSectionId' = first
          /\ edOps' = WithoutOp(edOps, i) \o drafts
          /\ isDrafting' = (drafts # <<>>)
          /\ edLast' = Handled("loadOutlineIfNeeded", FALSE, op.file, 0)
    /\ UNCHANGED <<activeFileId, isAuditing, viewMode, chatMessages,
                   edEvents>>
    /\ UNCHANGED exceptEditor

\* The user presses a section button of the outline: setActiveSectionId,
\* then the effect calls draftSection.
SelectSection(k) ==
    /\ edEvents < MaxEdEvents
    /\ k \in 1..Len(ActiveSections)
    /\ ActiveSections[k].id # activeSectionId
    /\ LET drafts == DraftSection(edFiles, activeFileId, ActiveSections[k].id)
       IN /\ Len(edOps) + Len(drafts) <= MaxEdOps
          /\ activeSectionId' = ActiveSections[k].id
          /\ edOps' = edOps \o drafts
          /\ isDrafting' = (isDrafting \/ drafts # <<>>)
    /\ edEvents' = edEvents + 1
    /\ edLast' = Handled("setActiveSectionId", FALSE, activeFileId, k)
    /\ UNCHANGED <<edFiles, activeFileId, isAuditing, viewMode,
                   chatMessages>>
    /\ UNCHANGED exceptEditor

\* draftSectionContent resolves (it catches its own errors): the section at
\* the captured index of the captured sections gets the draft.
DraftResolves(i, text) ==
    /\ i \in 1..Len(edOps)
    /\ edOps[i].kind = "draft"
    /\ text \in DraftTexts
    /\ LET op == edOps[i]
           newSections ==
               [op.sections EXCEPT ![op.idx] =
                   [@ EXCEPT !.content = Def(text),
                             !.isDrafted = TRUE,
                             !.revisions = Def(<<Revision(text, "AI",
                                                   "Initial Draft")>>)]]
       IN /\ edFiles' = SetSections(edFiles, op.file, newSections)
          /\ edLast' = Handled("draftSection", FALSE, op.file, op.idx)
    /\ edOps' = WithoutOp(edOps, i)
    /\ isDrafting' = FALSE
    /\ UNCHANGED <<activeFileId, activeSectionId, isAuditing, viewMode,
                   chatMessages, edEvents>>
    /\ UNCHANGED exceptEditor

\* The textarea is shown for the active section when it has no proposal and
\* the view is edit or split; isDrafting does not disable it.
TextareaShown ==
    /\ ActiveIdx # 0
    /\ ~IsDefined(ActiveSections[ActiveIdx].proposal)
    /\ viewMode \in {"edit", "split"}

\* The user types: updateActiveSectionContent(text).
UpdateActiveSectionContent(text) ==
    /\ edEvents < MaxEdEvents
    /\ TextareaShown
    /\ text \in UserTexts
    /\ text # ContentOrEmpty(ActiveSections[ActiveIdx].content)
    /\ edFiles' = SetSections(edFiles, activeFileId,
                     MapSection(ActiveSections, activeSectionId, "content",
                                Def(text)))
    /\ edOps' = [k \in 1..Len(edOps) |->
                    IF edOps[k].file = activeFileId
                    THEN [edOps[k] EXCEPT !.edited = @ \cup {ActiveIdx}]
                    ELSE edOps[k]]
    /\ edEvents' = edEvents + 1
    /\ edLast' = Handled("updateActiveSectionContent", FALSE, activeFileId,
                         ActiveIdx)
    /\ UNCHANGED <<activeFileId, activeSectionId, isDrafting, isAuditing,
                   viewMode, chatMessages>>
    /\ UNCHANGED exceptEditor

\* The textarea loses focus: saveManualEdit prepends a USER revision.
SaveManualEdit ==
    /\ edEvents < MaxEdEvents
    /\ TextareaShown
    /\ LET s == ActiveSections[ActiveIdx]
       IN IF SpreadThrows(s)
          THEN /\ edLast' = Handled("saveManualEdit", TRUE, activeFileId,
                                    ActiveIdx)
               /\ UNCHANGED edFiles
          ELSE /\ edLast' = Handled("saveManualEdit", FALSE, activeFileId,
                                    ActiveIdx)
               /\ edFiles' = SetSections(edFiles, activeFileId,
                     MapSection(ActiveSections, activeSectionId, "revisions",
                        Def(<<Revision(ContentOrEmpty(s.content), "USER",
                                       "Manual Edit")>> \o s.revisions.v)))
    /\ edEvents' = edEvents + 1
    /\ UNCHANGED <<activeFileId, activeSectionId, isDrafting, isAuditing,
                   viewMode, chatMessages, edOps>>
    /\ UNCHANGED exceptEditor

\* The user presses a view button of the tool bar.
SetViewMode(m) ==
    /\ edEvents < MaxEdEvents
    /\ edFiles # <<>>
    /\ m \in ViewModes
    /\ m # viewMode
    /\ viewMode' = m
    /\ edEvents' = edEvents + 1
    /\ edLast' = Handled("setViewMode", FALSE, activeFileId, ActiveIdx)
    /\ UNCHANGED <<edFiles, activeFileId, activeSectionId, isDrafting,
                   isAuditing, chatMessages, edOps>>
    /\ UNCHANGED exceptEditor

\* handleCopilotRequest up to its await; the input is disabled while
\* isDrafting, and a section without content makes the handler return.
HandleCopilotRequest ==
    /\ edEvents < MaxEdEvents
    /\ ActiveIdx # 0
    /\ ~isDrafting
    /\ Len(edOps) < MaxEdOps
    /\ IF Truthy(ActiveSections[ActiveIdx].content)
       THEN /\ chatMessages' = Append(chatMessages, "user")
            /\ isDrafting' = TRUE
            /\ edOps' = Append(edOps, EdOp("copilot", activeFileId,
                                  activeSectionId, ActiveIdx, ActiveSections))
       ELSE UNCHANGED <<chatMessages, isDrafting, edOps>>
    /\ edEvents' = edEvents + 1
    /\ edLast' = Handled("handleCopilotRequest", FALSE, activeFileId,
                         ActiveIdx)
    /\ UNCHANGED <<edFiles, activeFileId, activeSectionId, isAuditing,
                   viewMode>>
    /\ UNCHANGED exceptEditor

\* proposeRefinement resolves: the captured sections, with the proposal on
\* the captured section, become the file's sections.
CopilotResolves(i) ==
    /\ i \in 1..Len(edOps)
    /\ edOps[i].kind = "copilot"
    /\ LET op == edOps[i]
       IN /\ edFiles' = SetSections(edFiles, op.file,
                           MapSection(op.sections, op.section, "proposal",
                                      Def(Proposal("refinement"))))
          /\ edLast' = Handled("handleCopilotRequest", FALSE, op.file, op.idx)
    /\ chatMessages' = Append(chatMessages, "proposed")
    /\ viewMode' = "diff"
    /\ isDrafting' = FALSE
    /\ edOps' = WithoutOp(edOps, i)
    /\ UNCHANGED <<activeFileId, activeSectionId, isAuditing, edEvents>>
    /\ UNCHANGED exceptEditor

\* proposeRefinement rejects: the catch block reports it in the chat.
CopilotRejects(i) ==
    /\ i \in 1..Len(edOps)
    /\ edOps[i].kind = "copilot"
    /\ chatMessages' = Append(chatMessages, "error")
    /\ isDrafting' = FALSE
    /\ edOps' = WithoutOp(edOps, i)
    /\ edLast' = Handled("handleCopilotRequest", TRUE, edOps[i].file,
                         edOps[i].idx)
    /\ UNCHANGED <<edFiles, activeFileId, activeSectionId, isAuditing,
                   viewMode, edEvents>>
    /\ UNCHANGED exceptEditor

\* handleAuditSection up to its await; the Audit button is disabled while
\* isAuditing and when the active section has no content.
HandleAuditSection ==
    /\ edEvents < MaxEdEvents
    /\ ActiveIdx # 0
    /\ ~isAuditing
    /\ Truthy(ActiveSections[ActiveIdx].content)
    /\ Len(edOps) < MaxEdOps
    /\ isAuditing' = TRUE
    /\ edOps' = Append(edOps, EdOp("audit", activeFileId, activeSectionId,
                                   ActiveIdx, ActiveSections))
    /\ edEvents' = edEvents + 1
    /\ edLast' = Handled("handleAuditSection", FALSE, activeFileId, ActiveIdx)
    /\ UNCHANGED <<edFiles, activeFileId, activeSectionId, isDrafting,
                   viewMode, chatMessages>>
    /\ UNCHANGED exceptEditor

\* auditSectionContent resolves: with issues and a suggestion the captured
\* sections, with a correction proposal, become the file's sections.
AuditResolves(i, hasIssues) ==
    /\ i \in 1..Len(edOps)
    /\ edOps[i].kind = "audit"
    /\ hasIssues \in BOOLEAN
    /\ LET op == edOps[i]
       IN /\ IF hasIssues
             THEN /\ edFiles' = SetSections(edFiles, op.file,
                        MapSection(op.sections, op.section, "proposal",
                                   Def(Proposal("correction"))))
                  /\ chatMessages' = Append(chatMessages, "audit-issues")
                  /\ viewMode' = "diff"
             ELSE /\ chatMessages' = Append(chatMessages, "audit-passed")
                  /\ UNCHANGED <<edFiles, viewMode>>
          /\ edLast' = Handled("handleAuditSection", FALSE, op.file, op.idx)
    /\ isAuditing' = FALSE
    /\ edOps' = WithoutOp(edOps, i)
    /\ UNCHANGED <<activeFileId, activeSectionId, isDrafting, edEvents>>
    /\ UNCHANGED exceptEditor

\* auditSectionContent rejects: nothing catches it, isAuditing stays set.
AuditRejects(i) ==
    /\ i \in 1..Len(edOps)
    /\ edOps[i].kind = "audit"
    /\ edOps' = WithoutOp(edOps, i)
    /\ edLast' = Handled("handleAuditSection", TRUE, edOps[i].file,
                         edOps[i].idx)
    /\ UNCHANGED <<edFiles, activeFileId, activeSectionId, isDrafting,
                   isAuditing, viewMode, chatMessages, edEvents>>
    /\ UNCHANGED exceptEditor

\* acceptProposal: returns when there is no active section or no proposal;
\* otherwise the proposal becomes the content and an AI revision is
\* prepended to s.revisions.
AcceptProposal ==
    /\ edEvents < MaxEdEvents
    /\ edFiles # <<>>
    /\ IF ActiveIdx = 0 THEN
           /\ edLast' = Handled("acceptProposal", FALSE, activeFileId, 0)
           /\ UNCHANGED <<edFiles, viewMode, chatMessages>>
       ELSE LET s == ActiveSections[ActiveIdx]
            IN IF ~IsDefined(s.proposal) THEN
                   /\ edLast' = Handled("acceptProposal", FALSE,
                                        activeFileId, ActiveIdx)
                   /\ UNCHANGED <<edFiles, viewMode, chatMessages>>
               ELSE IF SpreadThrows(s) THEN
                   /\ edLast' = Handled("acceptProposal", TRUE,
                                        activeFileId, ActiveIdx)
                   /\ UNCHANGED <<edFiles, viewMode, chatMessages>>
               ELSE
                   /\ edLast' = Handled("acceptProposal", FALSE,
                                        activeFileId, ActiveIdx)
                   /\ edFiles' = SetSections(edFiles, activeFileId,
                        [k \in 1..Len(ActiveSections) |->
                           IF ActiveSections[k].id = activeSectionId
                           THEN [ActiveSections[k] EXCEPT
                                   !.content =
                                       Def(ActiveSections[k].proposal.v
                                             .suggestedContent),
                                   !.proposal = Undefined,
                                   !.revisions =
                                       Def(<<Revision(
                                              s.proposal.v.suggestedContent,
                                              "AI", s.proposal.v.reason)>>
                                           \o ActiveSections[k].revisions.v)]
                           ELSE ActiveSections[k]])
                   /\ viewMode' = "edit"
                   /\ chatMessages' = Append(chatMessages, "applied")
    /\ edEvents' = edEvents + 1
    /\ UNCHANGED <<activeFileId, activeSectionId, isDrafting, isAuditing,
                   edOps>>
    /\ UNCHANGED exceptEditor

\* rejectProposal: returns when there is no active section; otherwise the
\* proposal is set to undefined.
RejectProposal ==
    /\ edEvents < MaxEdEvents
    /\ edFiles # <<>>
    /\ IF ActiveIdx = 0 THEN
           /\ edLast' = Handled("rejectProposal", FALSE, activeFileId, 0)
           /\ UNCHANGED <<edFiles, viewMode, chatMessages>>
       ELSE
           /\ edLast' = Handled("rejectProposal", FALSE, activeFileId,
                                ActiveIdx)
           /\ edFiles' = SetSections(edFiles, activeFileId,
                            MapSection(ActiveSections, activeSectionId,
                                       "proposal", Undefined))
           /\ viewMode' = "edit"
           /\ chatMessages' = Append(chatMessages, "discarded")
    /\ edEvents' = edEvents + 1
    /\ UNCHANGED <<activeFileId, activeSectionId, isDrafting, isAuditing,
                   edOps>>
    /\ UNCHANGED exceptEditor

EditorNext ==
    \/ \E f \in EdFileIds : SelectFile(f)
    \/ \E i \in 1..MaxEdOps, sections \in Outlines :
          OutlineResolves(i, sections)
    \/ \E k \in 1..MaxEdSections : SelectSection(k)
    \/ \E i \in 1..MaxEdOps, text \in DraftTexts : DraftResolves(i, text)
    \/ \E text \in UserTexts : UpdateActiveSectionContent(text)
    \/ SaveManualEdit
    \/ \E m \in ViewModes : SetViewMode(m)
    \/ HandleCopilotRequest
    \/ \E i \in 1..MaxEdOps : CopilotResolves(i)
    \/ \E i \in 1..MaxEdOps : CopilotRejects(i)
    \/ HandleAuditSection
    \/ \E i \in 1..MaxEdOps, hasIssues \in BOOLEAN : AuditResolves(i, hasIssues)
    \/ \E i \in 1..MaxEdOps : AuditRejects(i)
    \/ AcceptProposal
    \/ RejectProposal

SpecEditor == EditorInit /\ [][EditorNext]_vars

\* ============================================================ properties
\* The accumulator, read through the heaps.
Ctx == View(currentContext, arrs, objs)

\* Indices of the processed invocations that name signal_complete.
CompleteIdx == { n \in 1..Len(invoked) : invoked[n].call.name = "signal_complete" }

\* C1: in any session the percent values passed to onProgress form a
\* non-decreasing sequence, whatever the order and repetition of the
\* capabilities the engine invokes.
C1_PercentNonDecreasing ==
    \A i \in 1..(Len(progress) - 1) :
        progress[i].percent <= progress[i + 1].percent

\* C2: once signal_complete was invoked in the response of turn t, the
\* number of engine calls stays t, no engine call is outstanding or issued
\* again, and the session ends by returning the accumulator.
C2_StopsAfterComplete ==
    CompleteIdx # {} =>
        LET t == invoked[CHOOSE n \in CompleteIdx :
                           \A m \in CompleteIdx : n <= m].turn
        IN /\ engineCalls = t
           /\ pc \in {"proc", "loop", "returned"}
           /\ (pc = "loop" => turn = t)
           /\ (pc = "returned" =>
                 /\ result = currentContext
                 /\ rejection = None)

\* C2 witness: signal_complete on turn 1, session returned after exactly
\* one engine call.
C2_Witness ==
    /\ pc = "returned"
    /\ CompleteIdx # {}
    /\ invoked[1].call.name = "signal_complete"
    /\ engineCalls = 1

CommitNames == Capabilities \ {"signal_complete"}

\* The field group a capability targets, read from a context value.
GroupOf(v, name) ==
    CASE name = "commit_overview" -> <<v.summary, v.techStack>>
      [] name = "commit_architecture" -> <<v.entryPoints, v.keyModules>>
      [] name = "commit_workflows" -> <<v.workflows>>
      [] name = "commit_artifacts" -> <<v.artifacts>>
      [] name = "commit_benchmarks" -> <<v.benchmarks>>
      [] OTHER -> <<>>

\* The value of its field group that a well-formed invocation carries.
ArgsGroup(call) ==
    CASE call.name = "commit_overview" ->
           <<Def(call.args.summary), Def(call.args.techStack)>>
      [] call.name = "commit_architecture" ->
           <<Def(call.args.entryPoints), Def(call.args.keyModules)>>
      [] call.name = "commit_workflows" -> <<Def(call.args.workflows)>>
      [] call.name = "commit_artifacts" ->
           <<Def([f \in ArtifactFields |-> Def(call.args[f])])>>
      [] call.name = "commit_benchmarks" -> <<Def(call.args.benchmarks)>>
      [] OTHER -> <<>>

\* Every field of a context value is a defined text or list, the four
\* artifacts texts included.
AllDefined(v) ==
    /\ \A f \in {"summary", "artifacts"} \cup ListFields : IsDefined(v[f])
    /\ \A f \in ArtifactFields : IsDefined(v.artifacts.v[f])

\* This step is one iteration of the for-of over the function calls.
InvocationStep == pc = "proc" /\ pending # <<>> /\ Len(invoked') = Len(invoked) + 1

\* C4: an invocation of a commit capability whose required arguments are
\* not all present leaves the field group it targets as it was, and is
\* acknowledged with a function response.
C4_MalformedKeepsGroup ==
    [][ (InvocationStep /\ ~WellFormed(Head(pending))) =>
          /\ GroupOf(Ctx', Head(pending).name) = GroupOf(Ctx, Head(pending).name)
          /\ Len(toolParts') = Len(toolParts) + 1
          /\ toolParts'[Len(toolParts')].name = Head(pending).name
          /\ toolParts'[Len(toolParts')].id = Head(pending).id ]_vars

\* C5: in every state the accumulator, every snapshot delivered to
\* onPartial and the returned context have all fields defined.
C5_NeverUndefined ==
    /\ AllDefined(Ctx)
    /\ \A i \in 1..Len(partials) : AllDefined(View(partials[i], arrs, objs))
    /\ (pc = "returned" => AllDefined(View(result, arrs, objs)))

\* C6: every field group holds the arguments of the most recent
\* invocation of its capability when that invocation is well-formed, and
\* its initial value when its capability was never invoked (so invoking
\* one capability leaves the other groups as they were).
C6_LastWriteWins ==
    \A name \in CommitNames :
        LET idx == { n \in 1..Len(invoked) : invoked[n].call.name = name }
        IN IF idx = {}
           THEN GroupOf(Ctx, name) =
                  GroupOf(View(InitialContext, InitialArrs, InitialObjs), name)
           ELSE LET k == CHOOSE n \in idx : \A m \in idx : m <= n
                IN WellFormed(invoked[k].call) =>
                     GroupOf(Ctx, name) = ArgsGroup(invoked[k].call)

\* C6 witness: commit_overview was invoked twice, well-formed, with
\* different arguments, and the overview group holds the second ones.
C6_Witness ==
    /\ Len(invoked) = 2
    /\ invoked[1].call.name = "commit_overview"
    /\ invoked[2].call.name = "commit_overview"
    /\ WellFormed(invoked[1].call)
    /\ WellFormed(invoked[2].call)
    /\ invoked[1].call.args # invoked[2].call.args
    /\ Ctx.summary = Def(invoked[2].call.args.summary)

\* C7: once an engine call has thrown, the session is rejected with that
\* error, resolves with no context, and from then on issues no engine
\* call and emits no progress event and no snapshot.
C7_EngineErrorAborts ==
    [][ engineError' # None =>
          /\ pc' = "thrown"
          /\ rejection' = engineError'
          /\ result' = None
          /\ (engineError # None =>
                UNCHANGED <<engineCalls, progress, partials, messages>>) ]_vars

\* C7 witness: the engine call of a later turn threw after events had
\* been emitted, and the session is rejected.
C7_Witness ==
    /\ pc = "thrown"
    /\ rejection = "E1"
    /\ turn >= 1
    /\ Len(partials) >= 1

\* What the delivered snapshots denote, in delivery order.
PartialViews == [i \in 1..Len(partials) |-> View(partials[i], arrs, objs)]

\* C8: a snapshot delivered to onPartial is independent of the
\* accumulator: a step of the orchestrator changes no snapshot already
\* delivered, and a write an observer performs through a snapshot changes
\* neither the accumulator, nor the returned context, nor any other
\* delivered snapshot.
C8_SnapshotsIndependent ==
    [][ /\ (observerWrites' = observerWrites =>
              \A i \in 1..Len(partials) : PartialViews'[i] = PartialViews[i])
        /\ (observerWrites' # observerWrites =>
              /\ Ctx' = Ctx
              /\ (pc = "returned" =>
                    View(result, arrs, objs)' = View(result, arrs, objs))
              /\ \E i \in 1..Len(partials) :
                   \A j \in (1..Len(partials)) \ {i} :
                       PartialViews'[j] = PartialViews[j]) ]_vars

\* The accumulator after exactly the first n merges of the session.
RECURSIVE AfterMerges(_)
AfterMerges(n) ==
    IF n = 0 THEN InitialContext
    ELSE Merge(AfterMerges(n - 1), invoked[n].call)

\* C9: after n invocations were merged exactly n snapshots were
\* delivered, the n-th denoting the context after the first n merges, and
\* the progress events are those of the invocations of declared
\* capabilities, in invocation order.
C9_EventsFollowMerges ==
    /\ Len(partials) = Len(invoked)
    /\ \A n \in 1..Len(invoked) :
         PartialViews[n] = View(AfterMerges(n), arrs, objs)
    /\ \A i \in 1..Len(progress) :
         /\ progress[i].n \in 1..Len(invoked)
         /\ invoked[progress[i].n].call.name \in Capabilities
         /\ \A j \in 1..Len(progress) : i < j => progress[i].n < progress[j].n
    /\ \A n \in 1..Len(invoked) :
         invoked[n].call.name \in Capabilities =>
             \E i \in 1..Len(progress) : progress[i].n = n

\* C9 witness: two invocations were merged, each changed the context, and
\* two progress events and two differing snapshots were emitted.
C9_Witness ==
    /\ Len(invoked) = 2
    /\ Len(progress) = 2
    /\ Len(partials) = 2
    /\ PartialViews[1] # View(InitialContext, InitialArrs, InitialObjs)
    /\ PartialViews[1] # PartialViews[2]

\* C10: when the response of the latest turn held k >= 1 invocations and
\* has been processed, the conversation ends with that response followed
\* by one message of exactly k acknowledgements, the i-th carrying the
\* name and id of the i-th invocation; the next engine call sends it.
C10_AcksPerInvocation ==
    LET calls == response.functionCalls
        k == Len(calls)
    IN /\ (pc # "proc" /\ k >= 1 =>
             /\ Len(messages) >= 3
             /\ messages[Len(messages) - 1] =
                  [role |-> "model", functionCalls |-> calls]
             /\ messages[Len(messages)] =
                  [role |-> "user",
                   parts |-> [i \in 1..k |->
                                [name |-> calls[i].name, id |-> calls[i].id,
                                 result |-> "ok"]]])
       /\ (pc = "await" => sent = messages)

\* C10 witness: a response with two invocations was processed and the
\* next engine call is outstanding.
C10_Witness ==
    /\ pc = "await"
    /\ Len(response.functionCalls) = 2
    /\ turn >= 1

\* A step in which the awaited response holds no function call.
IdleTurn == pc = "await" /\ pc' = "loop"

\* What a turn without function calls leaves alone, and where it leaves
\* the loop.
IdleTurnFrame ==
    /\ Ctx' = Ctx
    /\ currentContext' = currentContext
    /\ progress' = progress
    /\ partials' = partials
    /\ ((turn' < TurnBudget /\ ~isComplete) => LoopContinues')

\* The loop head after a turn without function calls, budget left and no
\* terminal signal.
AfterIdleTurn ==
    /\ pc = "loop"
    /\ engineCalls > 0
    /\ response.functionCalls = <<>>
    /\ turn < TurnBudget
    /\ ~isComplete

\* The step is the next engine call, carrying the conversation so far.
NextEngineCall ==
    /\ pc' = "await"
    /\ engineCalls' = engineCalls + 1
    /\ sent' = messages

\* C11: a turn whose response invokes no capability leaves every field of
\* the accumulator as it was and delivers neither a progress event nor a
\* snapshot; unless the terminal capability had been signalled or the turn
\* budget is spent, the loop is then at an iteration that runs, and the
\* step taken from there is the next engine call.
C11_IdleTurnChangesNothing ==
    [][(IdleTurn => IdleTurnFrame) /\ (AfterIdleTurn => NextEngineCall)]_vars

\* C11 witness: commits were merged, a later response held no function
\* call, and the engine call of the following turn is outstanding.
C11_Witness ==
    /\ pc = "await"
    /\ engineCalls >= 2
    /\ response.functionCalls = <<>>
    /\ Len(invoked) >= 1
    /\ Len(partials) = Len(invoked)

\* C12: joining the returned chunks with the paragraph separator gives the
\* text back, for every text and every maxChunkSize.
C12_JoinRoundTrip ==
    ckPc = "returned" => Join(ckChunks) = ckText

\* C13: a text no longer than maxChunkSize comes back as the one-element
\* list holding it, paragraph separators and the empty text included.
C13_ShortTextOneChunk ==
    (ckPc = "returned" /\ Len(ckText) <= ckMax) => ckChunks = <<ckText>>

\* C13 witness: a text of exactly maxChunkSize characters that contains a
\* paragraph separator was returned as one chunk.
C13_Witness ==
    /\ ckPc = "returned"
    /\ Len(ckText) = ckMax
    /\ Len(Split(ckText)) >= 2
    /\ ckChunks = <<ckText>>

\* The non-empty members of a list, in order.
NonEmpty(list) == SelectSeq(list, LAMBDA x : x # <<>>)

\* The paragraphs of the chunks, chunk after chunk.
RECURSIVE ParagraphsOf(_)
ParagraphsOf(chunks) ==
    IF chunks = <<>> THEN <<>>
    ELSE Split(Head(chunks)) \o ParagraphsOf(Tail(chunks))

\* The paragraphs of the text that are longer than maxChunkSize.
Oversized == { k \in 1..Len(Split(ckText)) : Len(Split(ckText)[k]) > ckMax }

\* C14: the chunks break only at paragraph separators: their non-empty
\* paragraphs, chunk after chunk, are the non-empty paragraphs of the text
\* in the original order, each once; a paragraph longer than maxChunkSize
\* is a chunk of its own, whole.
C14_BreaksAtParagraphs ==
    ckPc = "returned" =>
        /\ NonEmpty(ParagraphsOf(ckChunks)) = NonEmpty(Split(ckText))
        /\ \A k \in Oversized :
             \E c \in 1..Len(ckChunks) : ckChunks[c] = Split(ckText)[k]

\* C14 witness: a text with an oversized paragraph and another non-empty
\* paragraph was cut into several chunks.
C14_Witness ==
    /\ ckPc = "returned"
    /\ Oversized # {}
    /\ Len(NonEmpty(Split(ckText))) >= 2
    /\ Len(NonEmpty(ckChunks)) >= 2

\* C15: a returned chunk that holds two or more paragraphs is, separators
\* included, at most maxChunkSize characters long.
C15_MultiParagraphChunkFits ==
    ckPc = "returned" =>
        \A c \in 1..Len(ckChunks) :
            Len(Split(ckChunks[c])) >= 2 => Len(ckChunks[c]) <= ckMax

\* Number of chunk/source pairs of the corpus.
Total == Len(allTextChunks)

\* The texts of pairs from..to (counted from 0), in order.
TextsOfPairs(from, to) ==
    [n \in 1..(to - from + 1) |-> allTextChunks[from + n].text]

\* C16: the k-th request carries the texts of pairs 20(k-1) ..
\* min(20k, N)-1; a request is issued only when every earlier one has
\* ended; a run that has returned has issued ceil(N/20) requests, none
\* for N = 0.
C16_BatchesOfTwenty ==
    ebPc # "called" =>
        /\ \A k \in 1..Len(ebRequests) :
             ebRequests[k].contents =
                 TextsOfPairs(20 * (k - 1), Min(20 * k, Total) - 1)
        /\ Len(ebRequests) = Len(ebOutcomes) + (IF ebPc = "await" THEN 1 ELSE 0)
        /\ ebPc = "returned" => Len(ebRequests) = (Total + 19) \div 20

\* C16 witness: a corpus of 45 pairs was embedded with three requests of
\* 20, 20 and 5 texts.
C16_Witness ==
    /\ ebPc = "returned"
    /\ Total = 45
    /\ Len(ebRequests) = 3
    /\ Len(ebRequests[1].contents) = 20
    /\ Len(ebRequests[2].contents) = 20
    /\ Len(ebRequests[3].contents) = 5

\* C17: a run that has returned has reported once per batch;
\* processedCount grows strictly, never exceeds totalCount, and equals it
\* in the last report.
C17_ReportPerBatch ==
    ebPc = "returned" =>
        /\ Len(ebReports) = Len(ebRequests)
        /\ \A n \in 1..Len(ebReports) :
             /\ ebReports[n][2] = Total
             /\ ebReports[n][1] <= Total
             /\ n > 1 => ebReports[n - 1][1] < ebReports[n][1]
        /\ ebReports # <<>> => ebReports[Len(ebReports)][1] = Total

\* The chunks of the index that were built from pairs of the k-th batch.
FromBatch(k) ==
    { n \in 1..Len(vectorChunks) :
        \E g \in (20 * (k - 1) + 1)..Min(20 * k, Total) :
            /\ vectorChunks[n].embedding = VectorOf(g - 1)
            /\ vectorChunks[n].sourceFile = allTextChunks[g].source }

\* C18: once a batch has failed (its request rejected, or an exception
\* thrown while its response was processed) none of its chunks is in the
\* index; the run still requests every later batch and returns.
C18_FailedBatchOmitted ==
    /\ \A k \in 1..Len(ebOutcomes) :
         ebOutcomes[k].kind \in {"rejected", "threw"} => FromBatch(k) = {}
    /\ ebPc = "returned" => Len(ebRequests) = (Total + 19) \div 20

\* The entry the engine returned for pair g (counted from 1): the entry at
\* the pair's position in the response to its batch, if there is one.
EntryFor(g) ==
    LET k == ((g - 1) \div 20) + 1
        pos == ((g - 1) % 20) + 1
    IN IF /\ k <= Len(ebOutcomes)
          /\ IsDefined(ebOutcomes[k].response.embeddings)
          /\ pos <= Len(ebOutcomes[k].response.embeddings.v)
       THEN ebOutcomes[k].response.embeddings.v[pos].values
       ELSE Undefined

\* Chunk vc was built from pair g and the vector returned for it.
BuiltFrom(vc, g) ==
    /\ vc.sourceFile = allTextChunks[g].source
    /\ EntryFor(g) = Def(vc.embedding)
    /\ vc.text = allTextChunks[g].text

\* C19: every chunk of the index has the text and the source file of one
\* and the same pair, the vector returned at that pair's position of its
\* batch response, and the tag argument as its type.
C19_ChunkZippedByPosition ==
    \A n \in 1..Len(vectorChunks) :
        /\ \E g \in 1..Total : BuiltFrom(vectorChunks[n], g)
        /\ vectorChunks[n].type = ebType

\* C19 witness: a corpus of more than one batch in which one file gave two
\* pairs was indexed completely.
C19_Witness ==
    /\ ebPc = "returned"
    /\ Total > 20
    /\ Len(vectorChunks) = Total
    /\ \E m, n \in 1..Len(vectorChunks) :
         /\ vectorChunks[m].sourceFile = vectorChunks[n].sourceFile
         /\ vectorChunks[m].text # vectorChunks[n].text

\* The positions (counted from 1) of the k-th batch.
PositionsOf(k) == 1..(Min(20 * k, Total) - 20 * (k - 1))

\* The k-th batch got a response whose embeddings were walked to the end.
Walked(k) ==
    /\ ebOutcomes[k].kind = "resolved"
    /\ IsDefined(ebOutcomes[k].response.embeddings)

\* C20: of a batch whose response was walked, exactly the positions that
\* got a vector are in the index, each built from its own pair and its own
\* vector, whatever positions of this or of earlier batches got none.
C20_GapSkipsOnlyItsPosition ==
    \A k \in 1..Len(ebOutcomes) :
        Walked(k) =>
            \A pos \in PositionsOf(k) :
                LET g == 20 * (k - 1) + pos
                IN IsDefined(EntryFor(g)) <=>
                       \E n \in 1..Len(vectorChunks) :
                           BuiltFrom(vectorChunks[n], g)

\* C20 witness: the first response lacked the vector of its first
\* position, a later batch was answered in full, and exactly that one
\* pair is missing from the index.
C20_Witness ==
    /\ ebPc = "returned"
    /\ Len(ebOutcomes) >= 2
    /\ Walked(1)
    /\ Len(ebOutcomes[1].response.embeddings.v) = 20
    /\ ~IsDefined(EntryFor(1))
    /\ Len(vectorChunks) = Total - 1
    /\ BuiltFrom(vectorChunks[1], 2)

\* C21: the ids of the chunks of an index assembled from one or more runs
\* are pairwise distinct.
C21_IdsDistinct ==
    \A m, n \in 1..Len(vectorIndex) :
        m # n => vectorIndex[m].id # vectorIndex[n].id

\* C22: for an empty index retrieveContext returns [] and issues no
\* embedding request, whatever topK is.
C22_EmptyIndexNoRequest ==
    Len(rtIndex) = 0 =>
        /\ rtRequests = 0
        /\ rtPc \in {"off", "called", "returned"}
        /\ rtPc = "returned" => rtResult = Def(<<>>)

\* C22 witness: a call with an empty index and topK > 0 has returned.
C22_Witness ==
    /\ rtPc = "returned"
    /\ Len(rtIndex) = 0
    /\ rtTopK > 0
    /\ rtResult = Def(<<>>)

\* The response carries a vector for the query.
HasVector(resp) ==
    /\ IsDefined(resp.embeddings)
    /\ resp.embeddings.v # <<>>
    /\ IsDefined(Head(resp.embeddings.v).values)

\* The call has returned after the engine gave a query vector.
Ranked ==
    /\ rtPc = "returned"
    /\ IsDefined(rtResponse)
    /\ HasVector(rtResponse.v)

\* The query vector of a ranked call.
QueryVector == Head(rtResponse.v.embeddings.v).values.v

\* A vector of magnitude zero.
IsZero(v) == v[1] = 0 /\ v[2] = 0

\* The cosine of the angle between two non-zero vectors is a / sqrt(b)
\* with a = u.v and b = |u|^2 |v|^2; CosNum is its sign times its square
\* times the common denominator used by CosMore.
CosDot(u, v) == u[1] * v[1] + u[2] * v[2]
CosSq(u) == u[1] * u[1] + u[2] * u[2]
CosNum(q, u, w) == Sgn(CosDot(q, u)) * CosDot(q, u) * CosDot(q, u) * CosSq(w)

\* Chunk x of the index is more similar to the query than chunk y.
CosMore(x, y) ==
    CosNum(QueryVector, rtIndex[x].embedding, rtIndex[y].embedding)
      > CosNum(QueryVector, rtIndex[y].embedding, rtIndex[x].embedding)

\* The place of chunk x in the index sorted by descending similarity, ties
\* in index order.
RankOf(x) ==
    1 + Cardinality({ y \in 1..Len(rtIndex) :
                        CosMore(y, x) \/ (~CosMore(x, y) /\ y < x) })

\* Every similarity of the ranked call is defined.
NoZeroVector ==
    /\ ~IsZero(QueryVector)
    /\ \A x \in 1..Len(rtIndex) : ~IsZero(rtIndex[x].embedding)

ScoreOfZero(p) == IsZero(QueryVector) \/ IsZero(rtScored[p].chunk.embedding)
ScorePositive(p) ==
    ~ScoreOfZero(p) /\ CosDot(QueryVector, rtScored[p].chunk.embedding) > 0
ScoreNegative(p) ==
    ~ScoreOfZero(p) /\ CosDot(QueryVector, rtScored[p].chunk.embedding) < 0

\* C24: no score of a ranked call is NaN, and in the sorted scores a chunk
\* scored from a zero-magnitude vector comes after every chunk of
\* positive similarity and before every chunk of negative similarity.
C24_ZeroMagnitudeScoresZero ==
    Ranked =>
        /\ \A p \in 1..Len(rtScored) : ~rtScored[p].score.nan
        /\ \A p, r \in 1..Len(rtScored) :
             p < r => /\ ~(ScoreOfZero(p) /\ ScorePositive(r))
                      /\ ~(ScoreNegative(p) /\ ScoreOfZero(r))

\* C25: for a non-empty index one embedding request is issued, never a
\* second; when its response carries no vector the call returns [] and no
\* similarity has been computed.
C25_OneRequestNoVectorEmpty ==
    Len(rtIndex) > 0 =>
        /\ rtRequests <= 1
        /\ rtPc \in {"await", "returned"} => rtRequests = 1
        /\ (rtPc = "returned" /\ IsDefined(rtResponse)
              /\ ~HasVector(rtResponse.v))
             => /\ rtResult = Def(<<>>)
                /\ rtCompared = 0
                /\ rtScored = <<>>

\* C25 witness: a call with a non-empty index got a response whose first
\* entry has no `values`, and returned [].
C25_Witness ==
    /\ rtPc = "returned"
    /\ Len(rtIndex) > 0
    /\ rtRequests = 1
    /\ IsDefined(rtResponse)
    /\ IsDefined(rtResponse.v.embeddings)
    /\ rtResponse.v.embeddings.v # <<>>
    /\ ~HasVector(rtResponse.v)
    /\ rtResult = Def(<<>>)

\* C26: every progress event carries a whole percent in 0..100; 100 is
\* carried only by the event of a signal_complete invocation, so a session
\* that returns without the terminal signal has emitted no 100.
C26_PercentRange ==
    /\ \A n \in 1..Len(progress) :
         /\ progress[n].percent \in 0..100
         /\ progress[n].percent = 100 =>
              /\ progress[n].n \in 1..Len(invoked)
              /\ invoked[progress[n].n].call.name = "signal_complete"
    /\ (pc = "returned" /\ CompleteIdx = {}) =>
          \A n \in 1..Len(progress) : progress[n].percent < 100

\* C26 witness: a session that emitted progress events used up its turn
\* budget and returned without the terminal signal.
C26_Witness ==
    /\ pc = "returned"
    /\ turn = TurnBudget
    /\ ~isComplete
    /\ Len(progress) >= 2

\* Engine calls issued whose response (or error) has not arrived.
Outstanding ==
    engineCalls - (turn + (IF pc \in {"proc", "thrown"} THEN 1 ELSE 0))

\* The acknowledgements the calls of a response are answered with.
AcksOf(calls) ==
    [n \in 1..Len(calls) |->
        [name |-> calls[n].name, id |-> calls[n].id, result |-> "ok"]]

\* The conversation ends with the latest response (when it has a content)
\* and, when it held function calls, one message with their
\* acknowledgements; these calls are the latest invocations processed.
LastTurnRecorded ==
    LET calls == response.functionCalls
        k == Len(calls)
        m == Len(messages)
    IN IF k > 0
       THEN /\ m >= 3
            /\ messages[m - 1] = [role |-> "model", functionCalls |-> calls]
            /\ messages[m] = [role |-> "user", parts |-> AcksOf(calls)]
            /\ Len(invoked) >= k
            /\ \A n \in 1..k :
                 invoked[Len(invoked) - k + n] = [call |-> calls[n],
                                                  turn |-> turn]
            /\ Len(partials) = Len(invoked)
       ELSE response.content =>
              messages[m] = [role |-> "model", functionCalls |-> <<>>]

\* A step that issues an engine call.
IssueStep == engineCalls' = engineCalls + 1

\* C27: at most one engine call is outstanding; a call is issued only when
\* the response of every earlier turn has been processed to the end, and
\* its contents are the conversation, which then holds the previous
\* turn's response and acknowledgements.
C27_OneCallOutstanding ==
    [][/\ Outstanding \in {0, 1}
       /\ Outstanding' \in {0, 1}
       /\ IssueStep =>
            ( /\ Outstanding = 0
              /\ pc = "loop"
              /\ pending = <<>>
              /\ engineCalls = turn
              /\ sent' = messages
              /\ (engineCalls > 0 => LastTurnRecorded) )]_vars

\* C27 witness: the call of the second turn is outstanding and carries the
\* first response, which held two function calls, and their
\* acknowledgements.
C27_Witness ==
    /\ pc = "await"
    /\ engineCalls = 2
    /\ Len(response.functionCalls) = 2
    /\ Len(sent) = 3
    /\ sent[3] = [role |-> "user", parts |-> AcksOf(response.functionCalls)]

\* The accumulator of a session that ran alone, after the first n of the
\* invocations session s has processed.
RECURSIVE AloneAfter(_, _)
AloneAfter(s, n) ==
    IF n = 0 THEN ContextLiteral(BaseOf(s))
    ELSE Merge(AloneAfter(s, n - 1), sess[s].invoked[n])

\* What a context denotes, read through the heap of the two sessions.
PairView(ctx) == View(ctx, prArrs, prObjs)

\* The ids of the function calls of the responses to session s.
OwnIds(s) == (BaseOf(s) + 1)..(BaseOf(s) + PairIdBase - 1)

\* The function calls of the model messages of a conversation, in order.
RECURSIVE CallsIn(_)
CallsIn(msgs) ==
    IF msgs = <<>> THEN <<>>
    ELSE IF Head(msgs).role = "model"
         THEN Head(msgs).functionCalls \o CallsIn(Tail(msgs))
         ELSE CallsIn(Tail(msgs))

\* The objects a context refers to belong to session s: they were created
\* by its own context literal or by the args of its own responses.
RefsOwned(ctx, s) ==
    /\ \A f \in ListFields :
         IsDefined(ctx[f]) => ctx[f].v[1] \in OwnIds(s) \cup {BaseOf(s)}
    /\ IsDefined(ctx.artifacts) =>
         ctx.artifacts.v[1] \in OwnIds(s) \cup {BaseOf(s)}

\* C28: whatever the other session does, a session's invocations are those
\* of its own responses, its conversation holds exactly them, and its
\* accumulator, each of its snapshots and its returned context are what
\* they would be had it run alone on these responses.
C28_SessionsIndependent ==
    \A s \in Sessions :
        LET me == sess[s]
            n == Len(me.invoked)
        IN /\ \A k \in 1..n : me.invoked[k].id \in OwnIds(s)
           /\ CallsIn(me.messages) = me.invoked
           /\ RefsOwned(me.currentContext, s)
           /\ PairView(me.currentContext) = PairView(AloneAfter(s, n))
           /\ Len(me.partials) = n
           /\ \A k \in 1..n :
                /\ RefsOwned(me.partials[k], s)
                /\ PairView(me.partials[k]) = PairView(AloneAfter(s, k))
           /\ me.pc = "returned" =>
                /\ IsDefined(me.result)
                /\ RefsOwned(me.result.v, s)
                /\ PairView(me.result.v) = PairView(AloneAfter(s, n))

\* C28 witness: both sessions are suspended at an engine call, each after
\* having merged an invocation of its own, and their accumulators differ.
C28_Witness ==
    /\ sess # <<>>
    /\ sess[1].pc = "await"
    /\ sess[2].pc = "await"
    /\ Len(sess[1].invoked) = 1
    /\ Len(sess[2].invoked) = 1
    /\ PairView(sess[1].currentContext) # PairView(sess[2].currentContext)

\* C29: no more file-content requests are outstanding than the configured
\* batch size.
C29_OutstandingWithinBatch == Cardinality(ftOutstanding) <= FETCH_BATCH_SIZE

\* A property of a context that is present and holds a list.
HoldsList(ctx, f) ==
    /\ f \in DOMAIN ctx
    /\ IsDefined(ctx[f])
    /\ ctx[f].v \in DOMAIN prArrs

\* C30: once handleAnalyze has completed successfully (the application
\* shows the overview), the context it holds has vectorIndex and
\* referenceRepos present as lists.
C30_FinalContextHasIndex ==
    step = "OVERVIEW" =>
        /\ IsDefined(repoContext)
        /\ HoldsList(repoContext.v, "vectorIndex")
        /\ HoldsList(repoContext.v, "referenceRepos")

\* a is an initial piece of b.
IsPrefix(a, b) == Len(a) <= Len(b) /\ SubSeq(b, 1, Len(a)) = a

\* C31: no step of retrieveContext changes the index it was given, and
\* every step of embedChunks leaves the chunks collected so far as a
\* prefix of the collected chunks.
C31_ExistingChunksReadOnly ==
    [][/\ rtIndex' = rtIndex
       /\ IsPrefix(vectorChunks, vectorChunks')]_vars

\* C31 witness: retrieveContext has returned after sorting the scores into
\* an order other than that of the index, and the index has more than one
\* chunk.
C31_Witness ==
    /\ rtPc = "returned"
    /\ Len(rtIndex) > 1
    /\ Len(rtScored) = Len(rtIndex)
    /\ \E p \in 1..Len(rtIndex) : rtScored[p].chunk # rtIndex[p]

\* Chunk vc carries the text and the source of pair g.
OfPair(vc, g) ==
    /\ vc.sourceFile = allTextChunks[g].source
    /\ vc.text = allTextChunks[g].text

\* The chunks from the n-th on can be assigned, in order, to pairs g, g + 1,
\* ... of the flattened list, each pair taken at most once (every chunk
\* goes to the first pair left that it fits).
RECURSIVE InPairOrder(_, _)
InPairOrder(n, g) ==
    IF n > Len(vectorChunks) THEN TRUE
    ELSE IF g > Len(allTextChunks) THEN FALSE
    ELSE IF OfPair(vectorChunks[n], g) THEN InPairOrder(n + 1, g + 1)
    ELSE InPairOrder(n, g + 1)

\* C32: the chunks collected by embedChunks are an order-preserving
\* subsequence of the flattened pair list, with at most one chunk per pair.
C32_IndexInPairOrder == InPairOrder(1, 1)

\* C32 witness: a run over more than one batch has returned an index that
\* has chunks of the first and of a later batch and lacks some pair.
C32_Witness ==
    /\ ebPc = "returned"
    /\ Len(allTextChunks) > BATCH_SIZE
    /\ Len(vectorChunks) > BATCH_SIZE
    /\ Len(vectorChunks) < Len(allTextChunks)

\* The invocations that came, in the response of their turn, after a
\* signal_complete.
AfterComplete ==
    { n \in 1..Len(invoked) :
        \E m \in CompleteIdx : m < n /\ invoked[m].turn = invoked[n].turn }

\* The calls processed so far, in order.
InvokedCalls == [n \in 1..Len(invoked) |-> invoked[n].call]

\* Invocation n has its acknowledgement: among those being collected while
\* its response is processed, in a message of the conversation afterwards.
Acknowledged(n) ==
    LET ack == [name |-> invoked[n].call.name, id |-> invoked[n].call.id,
                result |-> "ok"]
    IN IF pc = "proc" /\ invoked[n].turn = turn + 1
       THEN \E i \in 1..Len(toolParts) : toolParts[i] = ack
       ELSE \E m \in 1..Len(messages) :
              /\ messages[m].role = "user"
              /\ "parts" \in DOMAIN messages[m]
              /\ \E i \in 1..Len(messages[m].parts) : messages[m].parts[i] = ack

\* C33: every call of every response is processed, in order, also behind a
\* signal_complete: while a response is processed the calls done and the
\* calls left are the calls of the responses, outside of it (the loop goes
\* on or has stopped) the calls done are all of them; and an invocation
\* behind a signal_complete of its response is merged into the snapshot
\* delivered for it, reported when its capability is declared, and
\* acknowledged.
C33_WholeResponseProcessed ==
    /\ InvokedCalls \o (IF pc = "proc" THEN pending ELSE <<>>)
         = CallsIn(messages)
    /\ \A n \in AfterComplete :
         /\ n <= Len(partials)
         /\ PartialViews[n] = View(AfterMerges(n), arrs, objs)
         /\ invoked[n].call.name \in Capabilities =>
              \E i \in 1..Len(progress) : progress[i].n = n
         /\ Acknowledged(n)

\* C33 witness: a session has returned whose last response held
\* signal_complete followed by a commit_overview, and the returned summary
\* is the one of that commit.
C33_Witness ==
    /\ pc = "returned"
    /\ \E n \in AfterComplete :
         /\ invoked[n].call.name = "commit_overview"
         /\ Ctx.summary = Prop(invoked[n].call.args, "summary")
         /\ IsDefined(Ctx.summary)
         /\ Ctx.summary # Def("")

\* The invocations whose name is none of the declared capabilities.
UndeclaredIdx ==
    { n \in 1..Len(invoked) : invoked[n].call.name \notin Capabilities }

\* What the context denoted before invocation n was processed.
ViewBefore(n) ==
    IF n = 1 THEN View(InitialContext, arrs, objs) ELSE PartialViews[n - 1]

\* C34: an invocation of an undeclared name leaves every field of the
\* context as it was (the snapshot delivered for it denotes what the
\* context denoted before), emits no progress event, gets its snapshot and
\* its acknowledgement with result "ok"; and the completion flag is set
\* only when a signal_complete was processed.
C34_UndeclaredNameOnlyAcknowledged ==
    /\ \A n \in UndeclaredIdx :
         /\ n <= Len(partials)
         /\ PartialViews[n] = ViewBefore(n)
         /\ \A i \in 1..Len(progress) : progress[i].n # n
         /\ Acknowledged(n)
    /\ isComplete => CompleteIdx # {}

\* C34 witness: an undeclared name was invoked after a commit had changed
\* the context, its turn is over and the loop goes on.
C34_Witness ==
    /\ pc = "await"
    /\ ~isComplete
    /\ \E n \in UndeclaredIdx :
         /\ n >= 2
         /\ PartialViews[n] # View(InitialContext, arrs, objs)
         /\ Len(progress) = n - 1

\* A step in which the awaited query request settles without a response.
QueryRequestFails == rtPc = "await" /\ rtPc' # "await" /\ ~IsDefined(rtResponse')

\* C35: however the awaited query request settles, retrieveContext
\* returns a list; when the request fails the list is empty and the index
\* is as it was.
C35_RetrieveNeverRejects ==
    [][/\ rtPc = "await" =>
            /\ rtPc' = "returned"
            /\ IsDefined(rtResult')
       /\ QueryRequestFails =>
            /\ rtResult' = Def(<<>>)
            /\ rtIndex' = rtIndex]_vars

\* C35 witness: a call with a non-empty index has returned [] after its
\* query request failed.
C35_Witness ==
    /\ rtPc = "returned"
    /\ Len(rtIndex) >= 1
    /\ rtRequests = 1
    /\ ~IsDefined(rtResponse)
    /\ rtResult = Def(<<>>)

\* C36: when the query embedding was returned, the result holds
\* min(topK, |index|) chunks, each the chunk at some position of the index
\* as it stands there, no position taken twice (the id of a chunk of the
\* index is its position).
C36_ResultFromDistinctPositions ==
    (rtPc = "returned" /\ Ranked) =>
        LET r == rtResult.v
        IN /\ Len(r) = Min(rtTopK, Len(rtIndex))
           /\ \A p \in 1..Len(r) :
                /\ r[p].id \in 1..Len(rtIndex)
                /\ rtIndex[r[p].id] = r[p]
           /\ \A p, q \in 1..Len(r) : p # q => r[p].id # r[q].id

\* C36 witness: a call returned two or more chunks, fewer than the index
\* holds, while the similarity of some chunk was not a number.
C36_Witness ==
    /\ rtPc = "returned"
    /\ Ranked
    /\ \E p \in 1..Len(rtScored) : rtScored[p].score.nan
    /\ Len(rtResult.v) >= 2
    /\ Len(rtResult.v) < Len(rtIndex)

\* The step adds one message to the conversation: the response while the
\* engine call is awaited, the acknowledgements (right behind the response)
\* when the calls of the response have been processed.
AppendsOne ==
    /\ Len(messages') = Len(messages) + 1
    /\ \/ /\ pc = "await"
          /\ messages'[Len(messages')] =
               [role |-> "model", functionCalls |-> response'.functionCalls]
       \/ /\ pc = "proc"
          /\ messages'[Len(messages')].role = "user"
          /\ messages[Len(messages)].role = "model"

\* C37: the conversation starts with the system instruction and only
\* grows at its end, by the response and then by one message of
\* acknowledgements per turn, and what is sent to the engine only grows at
\* its end as well.
C37_ConversationAppendOnly ==
    [][/\ messages[1] = SystemMessage
       /\ messages'[1] = SystemMessage
       /\ IsPrefix(messages, messages')
       /\ messages' # messages => AppendsOne
       /\ Len(messages') <= 1 + 2 * turn' + (IF pc' = "proc" THEN 1 ELSE 0)
       /\ IsPrefix(sent, sent')]_vars

\* C37 witness: the third engine call is outstanding, after two turns that
\* each added a response and its acknowledgements.
C37_Witness ==
    /\ pc = "await"
    /\ turn = 2
    /\ Len(messages) = 5
    /\ sent = messages

\* C38: for a text longer than maxChunkSize no returned chunk is the empty
\* string.
C38_NoEmptyChunk ==
    (ckPc = "returned" /\ Len(ckText) > ckMax) =>
        \A c \in 1..Len(ckChunks) : ckChunks[c] # <<>>

\* The awaited call i of the editor completes in this step: a draft, a
\* copilot proposal or an audit, none of which starts another call.
CompletesOp(i) ==
    /\ edEvents' = edEvents
    /\ edOps[i].kind \in {"draft", "copilot", "audit"}
    /\ edOps' = WithoutOp(edOps, i)

\* The content of section k of file f is the same after the step.
ContentKept(f, k) ==
    /\ k <= Len(edFiles'[f].sections)
    /\ edFiles'[f].sections[k].content = edFiles[f].sections[k].content

\* C39: a content edit the user makes to a section while a draft, a copilot
\* proposal or an audit on that file's sections is awaited is still present
\* after the call completes; the one content a completion may write is the
\* draft of the section it was asked to draft.
C39_EditSurvivesCompletion ==
    [][\A i \in 1..Len(edOps) :
          CompletesOp(i) =>
              \A k \in edOps[i].edited :
                  \/ edOps[i].kind = "draft" /\ k = edOps[i].idx
                  \/ ContentKept(edOps[i].file, k)]_vars

\* The handler named h is called in this step.
Called(h) == edEvents' = edEvents + 1 /\ edLast'.handler = h

\* Every file but the active one, and every section of the active file but
\* the active one, is the same after the step.
OthersKept ==
    /\ DOMAIN edFiles' = DOMAIN edFiles
    /\ \A f \in DOMAIN edFiles :
          /\ Len(edFiles'[f].sections) = Len(edFiles[f].sections)
          /\ edFiles'[f].isLoaded = edFiles[f].isLoaded
          /\ \A k \in 1..Len(edFiles[f].sections) :
                (f # activeFileId \/ k # ActiveIdx) =>
                    edFiles'[f].sections[k] = edFiles[f].sections[k]

\* A proposal is pending on the active section.
ProposalPending ==
    ActiveIdx # 0 /\ IsDefined(ActiveSections[ActiveIdx].proposal)

\* The revisions of a section as a sequence, none when it has no list.
RevisionsOf(section) ==
    IF IsDefined(section.revisions) THEN section.revisions.v ELSE <<>>

\* The step accepted the pending proposal of the active section.
Accepted ==
    LET old == ActiveSections[ActiveIdx]
        new == edFiles'[activeFileId].sections[ActiveIdx]
    IN /\ new.content = Def(old.proposal.v.suggestedContent)
       /\ new.proposal = Undefined
       /\ Len(RevisionsOf(new)) = Len(RevisionsOf(old)) + 1
       /\ RevisionsOf(new)[1].author = "AI"
       /\ Tail(RevisionsOf(new)) = RevisionsOf(old)

\* The step rejected the pending proposal of the active section.
Rejected ==
    LET old == ActiveSections[ActiveIdx]
        new == edFiles'[activeFileId].sections[ActiveIdx]
    IN /\ new.proposal = Undefined
       /\ new.content = old.content
       /\ new.revisions = old.revisions

\* No section content of any file changes in the step.
NoContentChange ==
    \A f \in DOMAIN edFiles :
        \A k \in 1..Len(edFiles[f].sections) : ContentKept(f, k)

\* C40: accepting a proposal sets the active section's content to the
\* proposal's suggestedContent, clears the proposal and prepends exactly one
\* AI revision; rejecting clears the proposal and keeps content and
\* revisions; both leave every other section and file unchanged, and change
\* no content when no proposal is pending.
C40_AcceptAndRejectProposal ==
    [][/\ Called("acceptProposal") =>
             /\ OthersKept
             /\ IF ProposalPending THEN Accepted ELSE NoContentChange
       /\ Called("rejectProposal") =>
             /\ OthersKept
             /\ IF ProposalPending THEN Rejected ELSE NoContentChange]_vars

============================================================================
